---- MODULE Spec2Model ----
(***************************************************************************)
(* A model of the smolagents-go agent runtime: agent construction          *)
(* (NewBaseAgent, NewCodeAgent, NewToolCallingAgent and the functional     *)
(* options), the transcript (pkg/memory), the run loop (BaseAgent.Run and  *)
(* ToolCallingAgent.Run), the two step strategies and the response         *)
(* parsers.                                                                *)
(*                                                                         *)
(* Strings are sequences of symbols.  A symbol is one character (a        *)
(* backquote, "\n", "j", ...) or, where the text is never parsed, a chunk  *)
(* of text (a prompt, a JSON document).  Go pointers to a memory.Step are     *)
(* modelled by the pair (memory.curStep, stepObj): stepObj is the step     *)
(* object most recently allocated by an Add*Step call, memory.curStep      *)
(* says whether Memory.curStep points to it or is nil.  memory.Steps holds *)
(* the VALUES appended by Add*Step (Go copies the struct into the slice).  *)
(***************************************************************************)
EXTENDS Integers, Sequences, FiniteSets, TLC

VARIABLES
    agent,       \* the agent last constructed (NoAgent when construction failed)
    newErr,      \* the error returned by the last constructor call
    newArgs,     \* the arguments of the last constructor call
    memory,      \* agent.memory: [Steps, curStep]
    stepObj,     \* the heap Step object memory.curStep / Run's actionStep points to
    pc,          \* position of the Run call in progress
    task,        \* Run's task argument
    step,        \* Run's loop counter
    response,    \* Step's local: the model's response text
    toolName,    \* Step's local: the extracted tool name
    args,        \* Step's local: the extracted argument mapping
    result,      \* what the step strategy returned (value)
    err,         \* what the step strategy returned (error)
    finalAnswer, \* Run's local, and its first return value
    lastError,   \* Run's local, and its second return value
    modelCalls,  \* calls received by the model during this Run, in order
    toolExecs,   \* Execute calls received by the tools during this Run, in order
    prevTask,    \* the task of the Run before this one on the same agent
    trace,       \* what a direct caller of pkg/memory passed in: per step opened
                 \* its kind, its messages, the tool calls recorded while it was
                 \* current, and whether it was completed
    memOp,       \* the last pkg/memory call of a direct caller and what it returned
    cancelled,   \* whether the ctx handed to Run has been cancelled
    runs,        \* the locals of the Run calls of two goroutines on one agent
    fnTool       \* the FunctionTool a caller of pkg/tools built: the signature of
                 \* fn, the schema, and the argument lists fn was invoked with

vars == <<agent, newErr, newArgs, memory, stepObj, pc, task, step, response, toolName,
          args, result, err, finalAnswer, lastError, modelCalls, toolExecs, prevTask,
          trace, memOp, cancelled, runs, fnTool>>

(***************************************************************************)
(* Bounds of the exploration.                                              *)
(***************************************************************************)
\* Iterations of the run loop explored in one Run; a Run whose budget is
\* larger is followed for MaxIter iterations only.
MaxIter == 3
\* the most steps a direct caller of pkg/memory opens, and the most tool calls
\* it records
MaxMemSteps == 2
MaxMemCalls == 2

(***************************************************************************)
(* Values of Go's any, errors, strings.                                  *)
(***************************************************************************)
NilValue == [t |-> "nil"]
StrV(s) == [t |-> "str", s |-> s]
IntV(i) == [t |-> "int", i |-> i]

NoErr == [e |-> "nil"]
\* errors.New(m); the message is a sequence of text chunks
ErrNew(m) == [e |-> "err", msg |-> m]
\* fmt.Errorf(prefix + ": %w", e)
ErrWrap(prefix, e) == [e |-> "err", msg |-> <<prefix>> \o e.msg]

EmptyMap == [k \in {} |-> NilValue]

\* fmt.Sprintf("%d", i) for the small integers the model uses
Digits == <<"0", "1", "2", "3", "4", "5", "6", "7", "8", "9">>
RECURSIVE FormatInt(_)
FormatInt(i) ==
    IF i < 0 THEN <<"-">> \o FormatInt(0 - i)
    ELSE IF i < 10 THEN <<Digits[i + 1]>>
    ELSE FormatInt(i \div 10) \o <<Digits[(i % 10) + 1]>>

\* fmt.Sprintf("%v", v)
SprintV(v) ==
    CASE v.t = "nil" -> <<"<", "n", "i", "l", ">">>
      [] v.t = "str" -> v.s
      [] v.t = "int" -> FormatInt(v.i)

(***************************************************************************)
(* pkg/models: roles and messages.                                         *)
(***************************************************************************)
RoleSystem == "system"
RoleUser == "user"
RoleAssistant == "assistant"
RoleTool == "tool"

Message(role, content, name) == [Role |-> role, Content |-> content, Name |-> name]

(***************************************************************************)
(* pkg/memory.                                                             *)
(***************************************************************************)
\* A memory.Step value; Ended stands for EndTimestamp being set.
NewStep(type, messages) ==
    [Type |-> type, Messages |-> messages, Ended |-> FALSE, ToolCalls |-> << >>]

NoStepObj == [Type |-> "none", Messages |-> << >>, Ended |-> FALSE, ToolCalls |-> << >>]

NewMemory == [Steps |-> << >>, curStep |-> "nil"]

\* Add*Step: allocate a step object, point curStep at it, append a COPY of
\* it to Steps.  Yields the new memory and the new object.
AddStep(m, type, messages) ==
    [mem |-> [Steps |-> Append(m.Steps, NewStep(type, messages)), curStep |-> "obj"],
     obj |-> NewStep(type, messages)]

AddSystemPromptStep(m, messages) == AddStep(m, "system_prompt", messages)
AddTaskStep(m, messages) == AddStep(m, "task", messages)
AddActionStep(m, messages) == AddStep(m, "action", messages)
AddPlanningStep(m, messages) == AddStep(m, "planning", messages)

ToolCall(name, a, output, e) ==
    [Name |-> name, Arguments |-> a, Output |-> output,
     Error |-> IF e = NoErr THEN << >> ELSE e.msg]

\* A variant of AddToolCall that records successful invocations only.
AddToolCallSuccessOnly(m, obj, name, a, output, e) ==
    IF m.curStep = "nil" \/ e # NoErr THEN obj
    ELSE [obj EXCEPT !.ToolCalls = Append(@, ToolCall(name, a, output, e))]

\* AddToolCall: appends to the object curStep points to; nothing when nil.
AddToolCall(m, obj, name, a, output, e) ==
    IF m.curStep = "nil" THEN obj
    ELSE [obj EXCEPT !.ToolCalls = Append(@, ToolCall(name, a, output, e))]

\* A variant of CompleteCurrentStep without the check for a current step.
CompleteCurrentStepUnguarded(m, obj) ==
    [mem |-> [m EXCEPT !.curStep = "nil"], obj |-> [obj EXCEPT !.Ended = TRUE]]

\* A variant of CompleteCurrentStep for a list that held the step objects
\* themselves: the closed object takes the place of the last entry of Steps.
CompleteCurrentStepInList(m, obj) ==
    IF m.curStep = "nil" THEN [mem |-> m, obj |-> obj]
    ELSE [mem |-> [Steps |-> [m.Steps EXCEPT ![Len(m.Steps)] = [obj EXCEPT !.Ended = TRUE]],
                   curStep |-> "nil"],
          obj |-> [obj EXCEPT !.Ended = TRUE]]

\* CompleteCurrentStep: stamps the object curStep points to, clears curStep.
CompleteCurrentStep(m, obj) ==
    IF m.curStep = "nil" THEN [mem |-> m, obj |-> obj]
    ELSE [mem |-> [m EXCEPT !.curStep = "nil"],
          obj |-> [obj EXCEPT !.Ended = TRUE]]

GetSteps(m) == m.Steps

\* A variant of GetMessages that reads the steps that have an end time only.
RECURSIVE GetMessagesOfEndedSteps(_)
GetMessagesOfEndedSteps(m) ==
    IF m.Steps = << >> THEN << >>
    ELSE GetMessagesOfEndedSteps([m EXCEPT !.Steps = SubSeq(@, 1, Len(@) - 1)])
         \o (IF m.Steps[Len(m.Steps)].Ended THEN m.Steps[Len(m.Steps)].Messages
             ELSE << >>)

RECURSIVE GetMessages(_)
GetMessages(m) ==
    IF m.Steps = << >> THEN << >>
    ELSE GetMessages([m EXCEPT !.Steps = SubSeq(@, 1, Len(@) - 1)])
         \o m.Steps[Len(m.Steps)].Messages

RECURSIVE GetToolCalls(_)
GetToolCalls(m) ==
    IF m.Steps = << >> THEN << >>
    ELSE GetToolCalls([m EXCEPT !.Steps = SubSeq(@, 1, Len(@) - 1)])
         \o m.Steps[Len(m.Steps)].ToolCalls

(***************************************************************************)
(* Strings: Go's 0-based offsets, strings.Index, s[a:b], TrimSpace.        *)
(***************************************************************************)
\* s[a:b]
Slice(s, a, b) == SubSeq(s, a + 1, b)

\* s[a:]
SliceFrom(s, a) == SubSeq(s, a + 1, Len(s))

\* strings.Index(s, sub): the 0-based offset of the first occurrence, or -1
Index(s, sub) ==
    LET hits == {i \in 0..(Len(s) - Len(sub)) : Slice(s, i, i + Len(sub)) = sub}
    IN  IF hits = {} THEN -1 ELSE CHOOSE i \in hits : \A j \in hits : i <= j

WhiteSpace == {" ", "\n", "\t", "\r", "\f"}

RECURSIVE TrimLeft(_)
TrimLeft(s) ==
    IF s # << >> /\ s[1] \in WhiteSpace THEN TrimLeft(Tail(s)) ELSE s

RECURSIVE TrimRight(_)
TrimRight(s) ==
    IF s # << >> /\ s[Len(s)] \in WhiteSpace
    THEN TrimRight(SubSeq(s, 1, Len(s) - 1)) ELSE s

\* strings.TrimSpace
TrimSpace(s) == TrimRight(TrimLeft(s))

\* The backquote character (the lexer of TLA+ does not take it in a string).
BQ == "backquote"
Fence == <<BQ, BQ, BQ>>
FenceJson == <<BQ, BQ, BQ, "j", "s", "o", "n">>
NL == <<"\n">>

(***************************************************************************)
(* JSON documents.  A JSON object is carried in a response as ONE symbol;  *)
(* JsonDocs gives, for each such symbol, what encoding/json's Unmarshal    *)
(* into struct{Tool string; Args map[string]any} yields.                   *)
(***************************************************************************)
JTestTool == "{\"tool\": \"test_tool\", \"args\": {\"arg1\": \"value1\"}}"
JAdd == "{\"tool\": \"add\", \"args\": {\"a\": \"1\", \"b\": \"2\"}}"
JUnknown == "{\"tool\": \"nope\", \"args\": {\"arg1\": \"value1\"}}"
JNoTool == "{\"args\": {\"arg1\": \"value1\"}}"
JArray == "[\"test_tool\"]"

JsonSymbols == {JTestTool, JAdd, JUnknown, JNoTool, JArray}

TestToolName == <<"t", "e", "s", "t", "_", "t", "o", "o", "l">>
AddName == <<"a", "d", "d">>
NopeName == <<"n", "o", "p", "e">>

\* Argument mappings (map[string]any): functions from key to value.
Args1 == <<"a", "r", "g", "1">> :> StrV(<<"value1">>)
ArgsAB == (<<"a">> :> StrV(<<"1">>)) @@ (<<"b">> :> StrV(<<"2">>))

JsonDocs ==
    [j \in JsonSymbols |->
        CASE j = JTestTool -> [ok |-> TRUE, Tool |-> TestToolName, Args |-> Args1]
          [] j = JAdd -> [ok |-> TRUE, Tool |-> AddName, Args |-> ArgsAB]
          [] j = JUnknown -> [ok |-> TRUE, Tool |-> NopeName, Args |-> Args1]
          [] j = JNoTool -> [ok |-> TRUE, Tool |-> << >>, Args |-> Args1]
          [] j = JArray -> [ok |-> FALSE, Tool |-> << >>, Args |-> EmptyMap]]

\* json.Unmarshal([]byte(s), &call): a lone JSON-object symbol decodes per
\* JsonDocs; the texts null and {} decode to the zero struct; any other
\* text of the model's alphabet is not a JSON object and fails.
JsonUnmarshal(s) ==
    IF Len(s) = 1 /\ s[1] \in JsonSymbols THEN JsonDocs[s[1]]
    ELSE IF s = <<"n", "u", "l", "l">> \/ s = <<"{", "}">>
    THEN [ok |-> TRUE, Tool |-> << >>, Args |-> EmptyMap]
    ELSE [ok |-> FALSE, Tool |-> << >>, Args |-> EmptyMap]

\* A variant of extractJSON that takes the whole text when it has no fence.
extractJSONOrWholeText(s) ==
    LET start0 == Index(s, FenceJson)
        start1 == IF start0 = -1 THEN Index(s, Fence) ELSE start0
    IN  IF start1 = -1 THEN TrimSpace(s)
        ELSE LET nl == Index(SliceFrom(s, start1), NL)
             IN  IF nl = -1 THEN << >>
                 ELSE LET start == nl + 1
                          end == Index(SliceFrom(s, start), Fence)
                      IN  IF end = -1 THEN << >>
                          ELSE TrimSpace(Slice(s, start, start + end))

\* extractJSON (agents.go): note that the offset of the first newline is
\* taken relative to the fence and then used as an offset into s.
extractJSON(s) ==
    LET start0 == Index(s, FenceJson)
        start1 == IF start0 = -1 THEN Index(s, Fence) ELSE start0
    IN  IF start1 = -1 THEN << >>
        ELSE LET nl == Index(SliceFrom(s, start1), NL)
             IN  IF nl = -1 THEN << >>
                 ELSE LET start == nl + 1
                          end == Index(SliceFrom(s, start), Fence)
                      IN  IF end = -1 THEN << >>
                          ELSE TrimSpace(Slice(s, start, start + end))

\* A variant of extractToolCall without the early return on an empty
\* extraction: the empty text goes to the JSON decoder.
extractToolCallNoEmptyCheck(resp) ==
    LET jsonStr == extractJSON(resp)
        call == JsonUnmarshal(jsonStr)
    IN  IF ~call.ok
        THEN [args |-> EmptyMap,
              err |-> ErrNew(<<"failed to parse tool call: ", "json error">>),
              tool |-> << >>]
        ELSE IF call.Tool = << >> THEN [args |-> EmptyMap, err |-> NoErr, tool |-> << >>]
        ELSE [args |-> call.Args, err |-> NoErr, tool |-> call.Tool]

\* A variant of extractToolCall that takes a text the decoder refuses for a
\* text without a tool call.
extractToolCallSwallowingParseErrors(resp) ==
    LET jsonStr == extractJSON(resp)
        call == JsonUnmarshal(jsonStr)
    IN  IF jsonStr = << >> \/ ~call.ok \/ call.Tool = << >>
        THEN [args |-> EmptyMap, err |-> NoErr, tool |-> << >>]
        ELSE [args |-> call.Args, err |-> NoErr, tool |-> call.Tool]

\* extractToolCall: (tool name, args, error)
extractToolCall(resp) ==
    LET jsonStr == extractJSON(resp)
        call == JsonUnmarshal(jsonStr)
    IN  IF jsonStr = << >> THEN [args |-> EmptyMap, err |-> NoErr, tool |-> << >>]
        ELSE IF ~call.ok
        THEN [args |-> EmptyMap,
              err |-> ErrNew(<<"failed to parse tool call: ", "json error">>),
              tool |-> << >>]
        ELSE IF call.Tool = << >> THEN [args |-> EmptyMap, err |-> NoErr, tool |-> << >>]
        ELSE [args |-> call.Args, err |-> NoErr, tool |-> call.Tool]

(***************************************************************************)
(* Tools.  A tool is known to the agent by name and description; Execute   *)
(* is the tool's own business and its outcome is chosen by the tool.       *)
(***************************************************************************)
TestTool ==
    [name |-> TestToolName, description |-> "A test tool",
     params |-> <<"  - arg1: string (required)\n    Test argument\n">>]
AddTool == [name |-> AddName, description |-> "Adds two numbers", params |-> << >>]

\* no FunctionTool has been built
NoFnTool == [fn |-> "nil"]

\* The tool lists handed to the constructors.
ToolLists == {<< >>, <<TestTool>>, <<TestTool, AddTool>>}

\* What a tool's Execute may return: (result, error).
ToolOutcomes ==
    {[err |-> NoErr, result |-> StrV(<<"tool output">>)],
     [err |-> NoErr, result |-> IntV(42)],
     [err |-> ErrNew(<<"tool failed">>), result |-> NilValue]}

\* tools.FormatToolDescription
FormatToolDescription(tool) ==
    <<"Tool Name: ">> \o tool.name \o <<"\n", "Description: ", tool.description, "\n">>
    \o (IF Len(tool.params) > 0 THEN <<"Parameters:\n">> \o tool.params ELSE << >>)

(***************************************************************************)
(* pkg/agents: options and constructors.                                   *)
(***************************************************************************)
DefaultMaxSteps == 20
DefaultSystemPrompt ==
    <<"You are a helpful assistant that can use tools to help the user.">>
CodeAgentSystemPrompt ==
    <<"You are a helpful assistant that can use tools to help the user.",
      "\n", "You will be given a user request, [...] respond with the relevant information.">>

NoAgent == [kind |-> "nil"]

WithMaxSteps(n) == [opt |-> "WithMaxSteps", maxSteps |-> n]
WithSystemPrompt(p) == [opt |-> "WithSystemPrompt", systemPrompt |-> p]
WithName(n) == [name |-> n, opt |-> "WithName"]
WithDescription(d) == [description |-> d, opt |-> "WithDescription"]

\* A variant of ApplyOption whose WithMaxSteps rejects negative budgets only.
ApplyOptionAcceptingZero(o, a) ==
    CASE o.opt = "WithMaxSteps" ->
            IF o.maxSteps < 0
            THEN [err |-> ErrNew(<<"maxSteps must be greater than 0">>), agent |-> a]
            ELSE [err |-> NoErr, agent |-> [a EXCEPT !.maxSteps = o.maxSteps]]
      [] o.opt = "WithSystemPrompt" ->
            [err |-> NoErr, agent |-> [a EXCEPT !.systemPrompt = o.systemPrompt]]
      [] o.opt = "WithName" ->
            [err |-> NoErr, agent |-> [a EXCEPT !.name = o.name]]
      [] o.opt = "WithDescription" ->
            [err |-> NoErr, agent |-> [a EXCEPT !.description = o.description]]

\* An Option applied to a *BaseAgent: (the agent after it, the error)
ApplyOption(o, a) ==
    CASE o.opt = "WithMaxSteps" ->
            IF o.maxSteps <= 0
            THEN [err |-> ErrNew(<<"maxSteps must be greater than 0">>), agent |-> a]
            ELSE [err |-> NoErr, agent |-> [a EXCEPT !.maxSteps = o.maxSteps]]
      [] o.opt = "WithSystemPrompt" ->
            [err |-> NoErr, agent |-> [a EXCEPT !.systemPrompt = o.systemPrompt]]
      [] o.opt = "WithName" ->
            [err |-> NoErr, agent |-> [a EXCEPT !.name = o.name]]
      [] o.opt = "WithDescription" ->
            [err |-> NoErr, agent |-> [a EXCEPT !.description = o.description]]

\* for _, opt := range opts { if err := opt(agent); err != nil { return nil, ... } }
RECURSIVE ApplyOptions(_, _)
ApplyOptions(opts, a) ==
    IF opts = << >> THEN [err |-> NoErr, agent |-> a]
    ELSE LET r == ApplyOption(Head(opts), a)
         IN  IF r.err # NoErr
             THEN [err |-> ErrWrap("error applying option: ", r.err), agent |-> NoAgent]
             ELSE ApplyOptions(Tail(opts), r.agent)

\* NewToolCallingAgent's loop: every option is applied to a fresh BaseAgent
\* built from the agent's fields; the agent itself is not touched.
RECURSIVE ApplyOptionsToCopies(_, _)
ApplyOptionsToCopies(opts, a) ==
    IF opts = << >> THEN [err |-> NoErr, agent |-> a]
    ELSE LET r == ApplyOption(Head(opts), a)
         IN  IF r.err # NoErr
             THEN [err |-> ErrWrap("error applying option: ", r.err), agent |-> NoAgent]
             ELSE ApplyOptionsToCopies(Tail(opts), a)

NewBaseAgent(tools, model, opts) ==
    IF Len(tools) = 0
    THEN [err |-> ErrNew(<<"at least one tool is required">>), agent |-> NoAgent]
    ELSE IF model = "nil"
    THEN [err |-> ErrNew(<<"model is required">>), agent |-> NoAgent]
    ELSE ApplyOptions(opts,
            [name |-> "BaseAgent", description |-> "A base agent implementation",
             kind |-> "BaseAgent", maxSteps |-> DefaultMaxSteps,
             systemPrompt |-> DefaultSystemPrompt, tools |-> tools, model |-> model,
             stepper |-> "nil"])

NewCodeAgent(tools, model, opts) ==
    LET b == NewBaseAgent(tools, model, opts)
        a1 == [b.agent EXCEPT !.kind = "CodeAgent"]
        a2 == IF a1.name = "BaseAgent" THEN [a1 EXCEPT !.name = "CodeAgent"] ELSE a1
        a3 == IF a2.description = "A base agent implementation"
              THEN [a2 EXCEPT !.description =
                        "An agent specialized in generating and executing code"]
              ELSE a2
        a4 == IF a3.systemPrompt = DefaultSystemPrompt
              THEN [a3 EXCEPT !.systemPrompt = CodeAgentSystemPrompt] ELSE a3
    IN  IF b.err # NoErr THEN [err |-> b.err, agent |-> NoAgent]
        ELSE [err |-> NoErr, agent |-> a4]

NewToolCallingAgent(tools, model, opts) ==
    IF Len(tools) = 0
    THEN [err |-> ErrNew(<<"at least one tool is required">>), agent |-> NoAgent]
    ELSE IF model = "nil"
    THEN [err |-> ErrNew(<<"model is required">>), agent |-> NoAgent]
    ELSE ApplyOptionsToCopies(opts,
            [name |-> "ToolCallingAgent",
             description |-> "An agent specialized in calling tools and handling their output",
             kind |-> "ToolCallingAgent", maxSteps |-> DefaultMaxSteps,
             systemPrompt |-> DefaultSystemPrompt, tools |-> tools, model |-> model,
             stepper |-> "nil"])

GetName(a) == a.name

\* buildToolsDescription
RECURSIVE ToolsBlock(_)
ToolsBlock(tools) ==
    IF tools = << >> THEN << >>
    ELSE FormatToolDescription(Head(tools)) \o <<"\n">> \o ToolsBlock(Tail(tools))

buildToolsDescription(a) ==
    <<"You have access to the following tools:\n\n">>
    \o ToolsBlock(a.tools)
    \o <<"To use a tool, respond with a message formatted as follows: [...]",
         "If you want to provide a final answer, just respond with text instead.\n">>

\* A variant of the filter of buildMessages that skips nothing.
NonSystemKeepingAll(ms) == ms

\* the messages of ms whose role is not system
RECURSIVE NonSystem(_)
NonSystem(ms) ==
    IF ms = << >> THEN << >>
    ELSE IF Head(ms).Role = RoleSystem THEN NonSystem(Tail(ms))
    ELSE <<Head(ms)>> \o NonSystem(Tail(ms))

\* A variant of buildMessages that reads the system-prompt and task steps
\* only, not the action steps.
buildMessagesWithoutActionSteps(a, m) ==
    <<Message(RoleSystem, a.systemPrompt, << >>)>>
    \o (IF Len(a.tools) > 0
        THEN <<Message(RoleSystem, buildToolsDescription(a), << >>)>> ELSE << >>)
    \o NonSystem(GetMessages([m EXCEPT !.Steps =
                     SelectSeq(m.Steps, LAMBDA st : st.Type # "action")]))

\* buildMessages
buildMessages(a, m) ==
    <<Message(RoleSystem, a.systemPrompt, << >>)>>
    \o (IF Len(a.tools) > 0
        THEN <<Message(RoleSystem, buildToolsDescription(a), << >>)>> ELSE << >>)
    \o NonSystem(GetMessages(m))

\* A variant of findTool that falls back to the first tool of the list.
findToolLenient(a, name) == [err |-> NoErr, found |-> TRUE]

\* findTool: the first tool of that name, or none
findTool(a, name) ==
    LET hits == {i \in 1..Len(a.tools) : a.tools[i].name = name}
    IN  IF hits = {} THEN [err |-> ErrNew(<<"tool not found: ">> \o name),
                           found |-> FALSE]
        ELSE [err |-> NoErr, found |-> TRUE]

(***************************************************************************)
(* CodeAgent: the two regular expressions, matched as Go's regexp does     *)
(* (leftmost match, greedy \w+ \s* \d+, lazy .*? and [\s\S]*?).            *)
(***************************************************************************)
\* the character at 0-based offset i
At(s, i) == s[i + 1]

Letters ==
    {"a", "b", "c", "d", "e", "f", "g", "h", "i", "j", "k", "l", "m", "n", "o",
     "p", "q", "r", "s", "t", "u", "v", "w", "x", "y", "z",
     "A", "B", "C", "D", "E", "F", "G", "H", "I", "J", "K", "L", "M", "N", "O",
     "P", "Q", "R", "S", "T", "U", "V", "W", "X", "Y", "Z"}
DigitChars == {"0", "1", "2", "3", "4", "5", "6", "7", "8", "9"}
\* \w
WordChars == Letters \cup DigitChars \cup {"_"}
\* \s
SpaceChars == {" ", "\t", "\n", "\r", "\f"}

\* the offset just past the longest run of characters of cs starting at i
RunEnd(s, i, cs) ==
    CHOOSE k \in i..Len(s) :
        /\ \A j \in i..(k - 1) : At(s, j) \in cs
        /\ k = Len(s) \/ At(s, k) \notin cs

\* the least element of a non-empty set of offsets
Least(S) == CHOOSE i \in S : \A j \in S : i <= j

\* The code-block pattern (fence, optional \w+, newline, lazy body, fence) matched at offset i
MatchBlockAt(s, i) ==
    LET k == RunEnd(s, i + 3, WordChars)
        rel == Index(SliceFrom(s, k + 1), Fence)
    IN  IF /\ i + 3 <= Len(s)
           /\ Slice(s, i, i + 3) = Fence
           /\ k < Len(s)
           /\ At(s, k) = "\n"
           /\ rel # -1
        THEN [ok |-> TRUE, group1 |-> Slice(s, k + 1, k + 1 + rel), end |-> k + 1 + rel + 3]
        ELSE [ok |-> FALSE, group1 |-> << >>, end |-> i]

\* re.FindAllStringSubmatch(s, -1), the first groups, searching from offset from
RECURSIVE CodeBlocksFrom(_, _)
CodeBlocksFrom(s, from) ==
    LET starts == {i \in from..(Len(s) - 1) : MatchBlockAt(s, i).ok}
    IN  IF starts = {} THEN << >>
        ELSE LET m == MatchBlockAt(s, Least(starts))
             IN  <<m.group1>> \o CodeBlocksFrom(s, m.end)

\* extractCodeBlocks
extractCodeBlocks(s) == CodeBlocksFrom(s, 0)

\* The call pattern (\w+)\s*\((.*?)\) matched at offset i
MatchCallAt(code, i) ==
    LET k == RunEnd(code, i, WordChars)
        p == RunEnd(code, k, SpaceChars)
        closes == {q \in (p + 1)..(Len(code) - 1) :
                      /\ At(code, q) = ")"
                      /\ \A j \in (p + 1)..(q - 1) : At(code, j) # "\n"}
    IN  IF /\ At(code, i) \in WordChars
           /\ p < Len(code)
           /\ At(code, p) = "("
           /\ closes # {}
        THEN [ok |-> TRUE, group1 |-> Slice(code, i, k),
              group2 |-> Slice(code, p + 1, Least(closes))]
        ELSE [ok |-> FALSE, group1 |-> << >>, group2 |-> << >>]

\* fmt.Sscanf(s, "%d", &i) on a digit string
RECURSIVE ParseInt(_)
ParseInt(ds) ==
    IF ds = << >> THEN 0
    ELSE 10 * ParseInt(SubSeq(ds, 1, Len(ds) - 1))
         + (CHOOSE d \in 0..9 : Digits[d + 1] = ds[Len(ds)])

\* a float64: num / 10^scale, without trailing zeros in the fraction
RECURSIVE FloatV(_, _)
FloatV(num, scale) ==
    IF scale > 0 /\ num % 10 = 0 THEN FloatV(num \div 10, scale - 1)
    ELSE [t |-> "float", num |-> num, scale |-> scale]

\* fmt.Sscanf(s, "%f", &f) on digits "." digits
ParseFloat(lit) ==
    LET dot == Index(lit, <<".">>)
    IN  FloatV(ParseInt(Slice(lit, 0, dot) \o SliceFrom(lit, dot + 1)),
               Len(lit) - dot - 1)

\* The argument pattern (\w+)\s*=\s*(?:"([^"]*)"|QUOTE([^QUOTE]*)QUOTE|(\d+(?:\.\d+)?)), QUOTE the single quote, matched at offset i
MatchArgAt(s, i) ==
    LET k == RunEnd(s, i, WordChars)
        p == RunEnd(s, k, SpaceChars)
        v == RunEnd(s, p + 1, SpaceChars)
        quote == At(s, v)
        closes == {q \in (v + 1)..(Len(s) - 1) : At(s, q) = quote}
        d == RunEnd(s, v, DigitChars)
        e == IF d + 1 < Len(s) /\ At(s, d) = "." /\ At(s, d + 1) \in DigitChars
             THEN RunEnd(s, d + 1, DigitChars) ELSE d
        none == [ok |-> FALSE, end |-> i, name |-> << >>, g2 |-> << >>, g3 |-> << >>,
                 g4 |-> << >>]
    IN  IF ~(/\ At(s, i) \in WordChars
             /\ p < Len(s)
             /\ At(s, p) = "="
             /\ v < Len(s))
        THEN none
        ELSE IF quote = "\"" /\ closes # {}
        THEN [none EXCEPT !.ok = TRUE, !.name = Slice(s, i, k),
                          !.g2 = Slice(s, v + 1, Least(closes)),
                          !.end = Least(closes) + 1]
        ELSE IF quote = "'" /\ closes # {}
        THEN [none EXCEPT !.ok = TRUE, !.name = Slice(s, i, k),
                          !.g3 = Slice(s, v + 1, Least(closes)),
                          !.end = Least(closes) + 1]
        ELSE IF quote \in DigitChars
        THEN [none EXCEPT !.ok = TRUE, !.name = Slice(s, i, k),
                          !.g4 = Slice(s, v, e), !.end = e]
        ELSE none

\* the value extractToolCallFromCode binds for one argument match
ArgValue(m) ==
    IF m.g2 # << >> THEN StrV(m.g2)
    ELSE IF m.g3 # << >> THEN StrV(m.g3)
    ELSE IF m.g4 # << >>
    THEN IF Index(m.g4, <<".">>) # -1 THEN ParseFloat(m.g4) ELSE IntV(ParseInt(m.g4))
    ELSE NilValue

\* the loop over re.FindAllStringSubmatch(argsStr, -1): args[argName] = argValue
RECURSIVE ParseArgsFrom(_, _, _)
ParseArgsFrom(s, from, acc) ==
    LET starts == {i \in from..(Len(s) - 1) : MatchArgAt(s, i).ok}
    IN  IF starts = {} THEN acc
        ELSE LET m == MatchArgAt(s, Least(starts))
             IN  ParseArgsFrom(s, m.end,
                    [key \in (DOMAIN acc) \cup {m.name} |->
                        IF key = m.name THEN ArgValue(m) ELSE acc[key]])

\* CodeAgent.extractToolCallFromCode: (tool name, args, error); the error is
\* always nil.
extractToolCallFromCode(a, code) ==
    LET starts == {i \in 0..(Len(code) - 1) : MatchCallAt(code, i).ok}
        m == MatchCallAt(code, Least(starts))
    IN  IF starts = {} THEN [args |-> EmptyMap, err |-> NoErr, tool |-> << >>]
        ELSE IF ~findTool(a, m.group1).found
        THEN [args |-> EmptyMap, err |-> NoErr, tool |-> << >>]
        ELSE [args |-> ParseArgsFrom(m.group2, 0, EmptyMap), err |-> NoErr,
              tool |-> m.group1]

\* A variant of the loop over the code blocks in which a later block that
\* yields a tool name replaces an earlier one.
RECURSIVE LastCodeCall(_, _)
LastCodeCall(a, blocks) ==
    IF blocks = << >> THEN [args |-> EmptyMap, err |-> NoErr, tool |-> << >>]
    ELSE LET c == extractToolCallFromCode(a, Head(blocks))
             later == LastCodeCall(a, Tail(blocks))
         IN  IF later.tool # << >> THEN later ELSE c

\* CodeAgent.Step's loop over the code blocks: the call of the first block
\* that yields a tool name, or none.
RECURSIVE FirstCodeCall(_, _)
FirstCodeCall(a, blocks) ==
    IF blocks = << >> THEN [args |-> EmptyMap, err |-> NoErr, tool |-> << >>]
    ELSE LET c == extractToolCallFromCode(a, Head(blocks))
         IN  IF c.tool # << >> THEN c ELSE FirstCodeCall(a, Tail(blocks))

(***************************************************************************)
(* The environment: tasks, option lists, and what the model may answer.    *)
(***************************************************************************)
Tasks == {<<"test task">>, <<"other task">>}

CustomPrompt == <<"Custom prompt">>

Options ==
    {WithMaxSteps(n) : n \in (-1)..MaxIter}
    \cup {WithSystemPrompt(CustomPrompt), WithName("CustomAgent"),
          WithDescription("Custom description")}

\* The option lists handed to the constructors: none, any one option, and
\* the two-option lists of the README and of TestAgentOptions.
OptionLists ==
    {<< >>} \cup {<<o>> : o \in Options}
    \cup {<<WithMaxSteps(n), WithSystemPrompt(CustomPrompt)>> : n \in (-1)..MaxIter}
    \cup {<<WithName("CustomAgent"), WithMaxSteps(n)>> : n \in (-1)..MaxIter}

RespFinal == <<"D", "o", "n", "e", ".">>
RespEmpty == << >>
RespCallTest == FenceJson \o NL \o <<JTestTool>> \o NL \o Fence
RespCallAdd == Fence \o NL \o <<JAdd>> \o NL \o Fence
RespCallUnknown == FenceJson \o NL \o <<JUnknown>> \o NL \o Fence
RespBadJson == FenceJson \o NL \o <<"{", "t", "o", "o", "l">> \o NL \o Fence

\* a well-formed call document that names no tool
RespNoTool == FenceJson \o NL \o <<JNoTool>> \o NL \o Fence
\* the call of RespCallTest with text before the block, and with text after it
Preamble == <<"S", "u", "r", "e", ":", "\n">>
RespCallAfterText == Preamble \o RespCallTest
RespCallBeforeText == RespCallTest \o <<"\n", "O", "k", ".">>

\* the call of RespCallTest as OpenAIModel returns a tool call: the bare
\* JSON text, with no fence around it
RespCallUnfenced == <<JTestTool>>

\* a fenced code block with an optional language tag
CodeBlock(lang, body) == Fence \o lang \o NL \o body \o Fence

\* lines of code that call nope, add and test_tool
LineNope == <<"x", " ", "=", " ">> \o NopeName \o <<"(", "a", "=", "1", ")", "\n">>
LineAdd ==
    <<"r", " ", "=", " ">> \o AddName
    \o <<"(", "a", "=", "1", ",", " ", "b", "=", "2", ")", "\n">>
LineTest ==
    TestToolName \o <<"(", "a", "r", "g", "1", "=", "\"", "value1", "\"", ")", "\n">>

\* three code blocks: a call of nope, then of add, then of test_tool
RespBlocks ==
    CodeBlock(<<"g", "o">>, LineNope) \o NL \o CodeBlock(<< >>, LineAdd) \o NL
    \o CodeBlock(<<"g", "o">>, LineTest)

RespCode ==
    Fence \o <<"g", "o", "\n", "r", " ", "=", " ", "a", "d", "d", "(", "a", "=", "1",
               ",", " ", "b", "=", "2", ")", "\n">> \o Fence

Responses ==
    {RespFinal, RespEmpty, RespCallTest, RespCallAdd, RespCallUnknown, RespBadJson,
     RespNoTool, RespCallAfterText, RespCallBeforeText, RespCallUnfenced, RespCode,
     RespBlocks}

\* What the model's Generate / GenerateWithTools may return: (text, error).
ModelOutcomes ==
    {[response |-> r, err |-> NoErr] : r \in Responses}
    \cup {[response |-> << >>, err |-> ErrNew(<<"model error">>)]}

(***************************************************************************)
(* State.                                                                  *)
(***************************************************************************)
\* no pkg/memory call made by a direct caller yet
\* no goroutine has called Run
NoRuns == << >>

NoMemOp == [op |-> "none", ret |-> "nil"]

NoArgs == [opts |-> << >>, tools |-> << >>, model |-> "nil", fn |-> "none"]

Init ==
    /\ agent = NoAgent
    /\ newErr = NoErr
    /\ newArgs = NoArgs
    /\ memory = NewMemory
    /\ stepObj = NoStepObj
    /\ pc = "idle"
    /\ task = << >>
    /\ step = 0
    /\ response = << >>
    /\ toolName = << >>
    /\ args = EmptyMap
    /\ result = NilValue
    /\ err = NoErr
    /\ finalAnswer = NilValue
    /\ lastError = NoErr
    /\ modelCalls = << >>
    /\ toolExecs = << >>
    /\ prevTask = << >>
    /\ trace = << >>
    /\ memOp = NoMemOp
    /\ cancelled = FALSE
    /\ runs = NoRuns
    /\ fnTool = NoFnTool

\* What a constructor call leaves besides its two results: the caller holds
\* an agent with a fresh memory and no Run in progress.  The model follows
\* one constructor call: a later call would leave nothing of the earlier
\* agent or of its Runs, and so lead to the states the first call leads to.
Constructed(fn, tools, model, opts) ==
    /\ pc = "idle"
    /\ newArgs = NoArgs
    /\ newArgs' = [opts |-> opts, tools |-> tools, model |-> model, fn |-> fn]
    /\ memory' = NewMemory
    /\ stepObj' = NoStepObj
    /\ pc' = "idle"
    /\ task' = << >>
    /\ step' = 0
    /\ response' = << >>
    /\ toolName' = << >>
    /\ args' = EmptyMap
    /\ result' = NilValue
    /\ err' = NoErr
    /\ finalAnswer' = NilValue
    /\ lastError' = NoErr
    /\ modelCalls' = << >>
    /\ toolExecs' = << >>
    /\ UNCHANGED <<fnTool, cancelled, runs, prevTask, trace, memOp>>

CallNewBaseAgent ==
    /\ pc = "idle"
    /\ \E tools \in ToolLists, model \in {"nil", "mock"}, opts \in OptionLists :
           /\ Constructed("NewBaseAgent", tools, model, opts)
           /\ agent' = NewBaseAgent(tools, model, opts).agent
           /\ newErr' = NewBaseAgent(tools, model, opts).err

CallNewCodeAgent ==
    /\ pc = "idle"
    /\ \E tools \in ToolLists, model \in {"nil", "mock"}, opts \in OptionLists :
           /\ Constructed("NewCodeAgent", tools, model, opts)
           /\ agent' = NewCodeAgent(tools, model, opts).agent
           /\ newErr' = NewCodeAgent(tools, model, opts).err

CallNewToolCallingAgent ==
    /\ pc = "idle"
    /\ \E tools \in ToolLists, model \in {"nil", "mock"}, opts \in OptionLists :
           /\ Constructed("NewToolCallingAgent", tools, model, opts)
           /\ agent' = NewToolCallingAgent(tools, model, opts).agent
           /\ newErr' = NewToolCallingAgent(tools, model, opts).err

\* SetStepper, as a CodeAgent's owner installs the agent's own Step.
CallSetStepper ==
    /\ pc \in {"idle", "returned"}
    /\ agent # NoAgent
    /\ agent.kind = "CodeAgent"
    /\ agent' = [agent EXCEPT !.stepper = "CodeAgent"]
    /\ UNCHANGED <<fnTool, cancelled, runs, prevTask, trace, memOp, newErr, newArgs, memory, stepObj, pc, task, step, response, toolName,
                   args, result, err, finalAnswer, lastError, modelCalls, toolExecs>>

(***************************************************************************)
(* Run (BaseAgent.Run; ToolCallingAgent.Run is the same code with a.Step   *)
(* in place of the stepper dispatch).                                      *)
(***************************************************************************)
\* A variant of the start of Run that goes on with the memory of the Run before.
RunPrologueKeepingTranscript(t) ==
    LET s1 == AddSystemPromptStep(memory,
                  <<Message(RoleSystem, agent.systemPrompt, << >>)>>)
        c1 == CompleteCurrentStep(s1.mem, s1.obj)
        s2 == AddTaskStep(c1.mem, <<Message(RoleUser, t, << >>)>>)
        c2 == CompleteCurrentStep(s2.mem, s2.obj)
    IN  /\ memory' = c2.mem
        /\ stepObj' = c2.obj
        /\ task' = t
        /\ step' = 0
        /\ finalAnswer' = NilValue
        /\ lastError' = NoErr
        /\ response' = << >>
        /\ toolName' = << >>
        /\ args' = EmptyMap
        /\ result' = NilValue
        /\ err' = NoErr
        /\ modelCalls' = << >>
        /\ toolExecs' = << >>
        /\ pc' = "loop"
        /\ cancelled' = FALSE
        /\ UNCHANGED <<agent, newErr, newArgs, trace, memOp, runs, fnTool>>

\* Run, up to the loop: reset the memory, record the system prompt and the task.
RunPrologue(t) ==
    LET s1 == AddSystemPromptStep(NewMemory,
                  <<Message(RoleSystem, agent.systemPrompt, << >>)>>)
        c1 == CompleteCurrentStep(s1.mem, s1.obj)
        s2 == AddTaskStep(c1.mem, <<Message(RoleUser, t, << >>)>>)
        c2 == CompleteCurrentStep(s2.mem, s2.obj)
    IN  /\ memory' = c2.mem
        /\ stepObj' = c2.obj
        /\ task' = t
        /\ step' = 0
        /\ finalAnswer' = NilValue
        /\ lastError' = NoErr
        /\ response' = << >>
        /\ toolName' = << >>
        /\ args' = EmptyMap
        /\ result' = NilValue
        /\ err' = NoErr
        /\ modelCalls' = << >>
        /\ toolExecs' = << >>
        /\ pc' = "loop"
        /\ cancelled' = FALSE
        /\ UNCHANGED <<agent, newErr, newArgs, trace, memOp, runs, fnTool>>

\* A call of Run on the agent, the first or a later one.
RunBegin ==
    /\ pc \in {"idle", "returned"}
    /\ agent # NoAgent
    /\ \E t \in Tasks : RunPrologue(t)
    /\ UNCHANGED prevTask

\* The same call, keeping the task of the Run before for the record.
RunBeginTracked ==
    /\ pc \in {"idle", "returned"}
    /\ agent # NoAgent
    /\ \E t \in Tasks : RunPrologue(t)
    /\ prevTask' = task

\* A variant of the loop head that looks at ctx first and leaves the loop
\* with ctx.Err() once ctx is cancelled.
LoopOpenStepCheckingCtx ==
    /\ pc = "loop"
    /\ step < agent.maxSteps
    /\ step < MaxIter
    /\ IF cancelled
       THEN /\ lastError' = ErrNew(<<"context canceled">>)
            /\ pc' = "exit"
            /\ UNCHANGED <<memory, stepObj>>
       ELSE /\ LET r == AddActionStep(memory, buildMessages(agent, memory))
               IN  /\ memory' = r.mem
                   /\ stepObj' = r.obj
            /\ pc' = "step"
            /\ UNCHANGED lastError
    /\ UNCHANGED <<fnTool, cancelled, runs, prevTask, trace, memOp, agent, newErr, newArgs, task, step, response, toolName, args, result,
                   err, finalAnswer, modelCalls, toolExecs>>

\* Loop head and the first two statements of the body: build the prompt,
\* open the action step.
LoopOpenStep ==
    /\ pc = "loop"
    /\ step < agent.maxSteps
    /\ step < MaxIter
    /\ LET r == AddActionStep(memory, buildMessages(agent, memory))
       IN  /\ memory' = r.mem
           /\ stepObj' = r.obj
    /\ pc' = "step"
    /\ UNCHANGED <<fnTool, cancelled, runs, prevTask, trace, memOp, agent, newErr, newArgs, task, step, response, toolName, args, result,
                   err, finalAnswer, lastError, modelCalls, toolExecs>>

\* A variant of BaseAgent.Step that reports neither a result nor an error.
BaseAgentStepSilent ==
    /\ pc = "step"
    /\ agent.kind \in {"BaseAgent", "CodeAgent"}
    /\ agent.stepper = "nil"
    /\ result' = NilValue
    /\ err' = NoErr
    /\ pc' = "stepped"
    /\ UNCHANGED <<fnTool, cancelled, runs, prevTask, trace, memOp, agent, newErr, newArgs, memory, stepObj, task, step, response, toolName,
                   args, finalAnswer, lastError, modelCalls, toolExecs>>

\* BaseAgent.Step, reached by Run when no stepper is installed.
BaseAgentStep ==
    /\ pc = "step"
    /\ agent.kind \in {"BaseAgent", "CodeAgent"}
    /\ agent.stepper = "nil"
    /\ result' = NilValue
    /\ err' = ErrNew(<<"Step method must be implemented by derived agents">>)
    /\ pc' = "stepped"
    /\ UNCHANGED <<fnTool, cancelled, runs, prevTask, trace, memOp, agent, newErr, newArgs, memory, stepObj, task, step, response, toolName,
                   args, finalAnswer, lastError, modelCalls, toolExecs>>

\* A variant of the dispatch that hands the tool's result back as the
\* step's result.
ExecuteAndAddResultAnswering(a, m, obj, name, as, o) ==
    LET f == findTool(a, name)
        rec == AddToolCall(m, obj, name, as, o.result, o.err)
    IN  IF ~f.found
        THEN [obj |-> obj, err |-> ErrWrap("failed to execute tool call: ", f.err),
              executed |-> FALSE, result |-> NilValue]
        ELSE IF o.err # NoErr
        THEN [obj |-> rec, err |-> ErrWrap("failed to execute tool call: ", o.err),
              executed |-> TRUE, result |-> NilValue]
        ELSE [obj |-> [rec EXCEPT !.Messages =
                           Append(@, Message(RoleTool, SprintV(o.result), name))],
              err |-> NoErr, executed |-> TRUE, result |-> o.result]

\* The part of a Step after a tool call was extracted: executeToolCall and
\* the tool message.  Yields the step object, result and error.
ExecuteAndAddResult(a, m, obj, name, as, o) ==
    LET f == findTool(a, name)
        rec == AddToolCall(m, obj, name, as, o.result, o.err)
    IN  IF ~f.found
        THEN [obj |-> obj, err |-> ErrWrap("failed to execute tool call: ", f.err),
              executed |-> FALSE, result |-> NilValue]
        ELSE IF o.err # NoErr
        THEN [obj |-> rec, err |-> ErrWrap("failed to execute tool call: ", o.err),
              executed |-> TRUE, result |-> NilValue]
        ELSE [obj |-> [rec EXCEPT !.Messages =
                           Append(@, Message(RoleTool, SprintV(o.result), name))],
              err |-> NoErr, executed |-> TRUE, result |-> NilValue]

\* ToolCallingAgent.Step up to the extraction of the tool call.
ToolCallingAgentStep ==
    /\ pc = "step"
    /\ agent.kind = "ToolCallingAgent"
    /\ \E out \in ModelOutcomes :
        LET tc == extractToolCall(out.response)
        IN  /\ modelCalls' = Append(modelCalls,
                    [fn |-> "GenerateWithTools", messages |-> stepObj.Messages,
                     response |-> out.response, err |-> out.err,
                     ctxDone |-> cancelled])
            /\ IF out.err # NoErr
               THEN /\ err' = ErrWrap("failed to generate response: ", out.err)
                    /\ result' = NilValue
                    /\ pc' = "stepped"
                    /\ UNCHANGED <<stepObj, response, toolName, args>>
               ELSE /\ stepObj' = [stepObj EXCEPT !.Messages =
                            Append(@, Message(RoleAssistant, out.response, << >>))]
                    /\ response' = out.response
                    /\ IF tc.err # NoErr
                       THEN /\ err' = ErrWrap("failed to extract tool call: ", tc.err)
                            /\ result' = NilValue
                            /\ pc' = "stepped"
                            /\ UNCHANGED <<toolName, args>>
                       ELSE IF tc.tool = << >>
                       THEN /\ err' = NoErr
                            /\ result' = StrV(out.response)
                            /\ pc' = "stepped"
                            /\ UNCHANGED <<toolName, args>>
                       ELSE /\ toolName' = tc.tool
                            /\ args' = tc.args
                            /\ pc' = "dispatch"
                            /\ UNCHANGED <<result, err>>
    /\ UNCHANGED <<fnTool, cancelled, runs, prevTask, trace, memOp, agent, newErr, newArgs, memory, task, step, finalAnswer, lastError,
                   toolExecs>>

\* ToolCallingAgent.Step from the extracted tool call on.
ToolCallingAgentDispatch ==
    /\ pc = "dispatch"
    /\ agent.kind = "ToolCallingAgent"
    /\ \E o \in ToolOutcomes :
        LET r == ExecuteAndAddResult(agent, memory, stepObj, toolName, args, o)
        IN  /\ stepObj' = r.obj
            /\ result' = r.result
            /\ err' = r.err
            /\ toolExecs' = IF r.executed
                            THEN Append(toolExecs, [ok |-> o.err = NoErr,
                                                    name |-> toolName, args |-> args])
                            ELSE toolExecs
    /\ pc' = "stepped"
    /\ UNCHANGED <<fnTool, cancelled, runs, prevTask, trace, memOp, agent, newErr, newArgs, memory, task, step, response, toolName, args,
                   finalAnswer, lastError, modelCalls>>

\* A variant of CodeAgent.Step that reads code blocks only: a response
\* without a code call is the final answer.
CodeAgentStepCodeOnly ==
    /\ pc = "step"
    /\ agent.kind = "CodeAgent"
    /\ agent.stepper = "CodeAgent"
    /\ \E out \in ModelOutcomes :
        LET cc == FirstCodeCall(agent, extractCodeBlocks(out.response))
        IN  /\ modelCalls' = Append(modelCalls,
                    [fn |-> "Generate", messages |-> stepObj.Messages,
                     response |-> out.response, err |-> out.err,
                     ctxDone |-> cancelled])
            /\ IF out.err # NoErr
               THEN /\ err' = ErrWrap("failed to generate response: ", out.err)
                    /\ result' = NilValue
                    /\ pc' = "stepped"
                    /\ UNCHANGED <<stepObj, response, toolName, args>>
               ELSE /\ stepObj' = [stepObj EXCEPT !.Messages =
                            Append(@, Message(RoleAssistant, out.response, << >>))]
                    /\ response' = out.response
                    /\ IF cc.tool # << >>
                       THEN /\ toolName' = cc.tool
                            /\ args' = cc.args
                            /\ pc' = "dispatch"
                            /\ UNCHANGED <<result, err>>
                       ELSE /\ err' = NoErr
                            /\ result' = StrV(out.response)
                            /\ pc' = "stepped"
                            /\ UNCHANGED <<toolName, args>>
    /\ UNCHANGED <<fnTool, cancelled, runs, prevTask, trace, memOp, agent, newErr, newArgs, memory, task, step, finalAnswer, lastError,
                   toolExecs>>

\* CodeAgent.Step up to the extraction of the tool call, as the method
\* itself: a call on the CodeAgent value reaches it with or without a stepper.
CodeAgentStepMethod ==
    /\ pc = "step"
    /\ agent.kind = "CodeAgent"
    /\ \E out \in ModelOutcomes :
        LET cc == FirstCodeCall(agent, extractCodeBlocks(out.response))
            tc == extractToolCall(out.response)
        IN  /\ modelCalls' = Append(modelCalls,
                    [fn |-> "Generate", messages |-> stepObj.Messages,
                     response |-> out.response, err |-> out.err,
                     ctxDone |-> cancelled])
            /\ IF out.err # NoErr
               THEN /\ err' = ErrWrap("failed to generate response: ", out.err)
                    /\ result' = NilValue
                    /\ pc' = "stepped"
                    /\ UNCHANGED <<stepObj, response, toolName, args>>
               ELSE /\ stepObj' = [stepObj EXCEPT !.Messages =
                            Append(@, Message(RoleAssistant, out.response, << >>))]
                    /\ response' = out.response
                    /\ IF cc.tool # << >>
                       THEN /\ toolName' = cc.tool
                            /\ args' = cc.args
                            /\ pc' = "dispatch"
                            /\ UNCHANGED <<result, err>>
                       ELSE IF tc.err # NoErr
                       THEN /\ err' = ErrWrap("failed to extract tool call: ", tc.err)
                            /\ result' = NilValue
                            /\ pc' = "stepped"
                            /\ UNCHANGED <<toolName, args>>
                       ELSE IF tc.tool = << >>
                       THEN /\ err' = NoErr
                            /\ result' = StrV(out.response)
                            /\ pc' = "stepped"
                            /\ UNCHANGED <<toolName, args>>
                       ELSE /\ toolName' = tc.tool
                            /\ args' = tc.args
                            /\ pc' = "dispatch"
                            /\ UNCHANGED <<result, err>>
    /\ UNCHANGED <<fnTool, cancelled, runs, prevTask, trace, memOp, agent, newErr, newArgs, memory, task, step, finalAnswer, lastError,
                   toolExecs>>

\* CodeAgent.Step up to the extraction of the tool call, reached by Run
\* through the stepper.
CodeAgentStep ==
    /\ pc = "step"
    /\ agent.kind = "CodeAgent"
    /\ agent.stepper = "CodeAgent"
    /\ CodeAgentStepMethod

\* CodeAgent.executeAndAddResToMem.
CodeAgentDispatch ==
    /\ pc = "dispatch"
    /\ agent.kind = "CodeAgent"
    /\ \E o \in ToolOutcomes :
        LET r == ExecuteAndAddResult(agent, memory, stepObj, toolName, args, o)
        IN  /\ stepObj' = r.obj
            /\ result' = r.result
            /\ err' = r.err
            /\ toolExecs' = IF r.executed
                            THEN Append(toolExecs, [ok |-> o.err = NoErr,
                                                    name |-> toolName, args |-> args])
                            ELSE toolExecs
    /\ pc' = "stepped"
    /\ UNCHANGED <<fnTool, cancelled, runs, prevTask, trace, memOp, agent, newErr, newArgs, memory, task, step, response, toolName, args,
                   finalAnswer, lastError, modelCalls>>

\* A variant of the loop body that does not advance the loop counter.
LoopHandleResultNotCounting ==
    /\ pc = "stepped"
    /\ LET c == CompleteCurrentStep(memory, stepObj)
       IN  /\ memory' = c.mem
           /\ stepObj' = c.obj
    /\ IF err # NoErr
       THEN /\ lastError' = err
            /\ pc' = "exit"
            /\ UNCHANGED <<finalAnswer, step>>
       ELSE IF result # NilValue
       THEN /\ finalAnswer' = result
            /\ pc' = "exit"
            /\ UNCHANGED <<lastError, step>>
       ELSE /\ pc' = "loop"
            /\ UNCHANGED <<finalAnswer, lastError, step>>
    /\ UNCHANGED <<fnTool, cancelled, runs, prevTask, trace, memOp, agent, newErr, newArgs, task, response, toolName, args, result, err,
                   modelCalls, toolExecs>>

\* A variant of the loop body that takes the empty string for no result.
LoopHandleResultSkippingEmpty ==
    /\ pc = "stepped"
    /\ LET c == CompleteCurrentStep(memory, stepObj)
       IN  /\ memory' = c.mem
           /\ stepObj' = c.obj
    /\ IF err # NoErr
       THEN /\ lastError' = err
            /\ pc' = "exit"
            /\ UNCHANGED <<finalAnswer, step>>
       ELSE IF result # NilValue /\ result # StrV(<< >>)
       THEN /\ finalAnswer' = result
            /\ pc' = "exit"
            /\ UNCHANGED <<lastError, step>>
       ELSE /\ step' = step + 1
            /\ pc' = "loop"
            /\ UNCHANGED <<finalAnswer, lastError>>
    /\ UNCHANGED <<fnTool, cancelled, runs, prevTask, trace, memOp, agent, newErr, newArgs, task, response, toolName, args, result, err,
                   modelCalls, toolExecs>>

\* A variant of the loop body that goes on to the next iteration after a
\* failed step instead of leaving the loop.
LoopHandleResultRetrying ==
    /\ pc = "stepped"
    /\ LET c == CompleteCurrentStep(memory, stepObj)
       IN  /\ memory' = c.mem
           /\ stepObj' = c.obj
    /\ IF err = NoErr /\ result # NilValue
       THEN /\ finalAnswer' = result
            /\ pc' = "exit"
            /\ UNCHANGED <<lastError, step>>
       ELSE /\ step' = step + 1
            /\ pc' = "loop"
            /\ UNCHANGED <<finalAnswer, lastError>>
    /\ UNCHANGED <<fnTool, cancelled, runs, prevTask, trace, memOp, agent, newErr, newArgs, task, response, toolName, args, result, err,
                   modelCalls, toolExecs>>

\* The rest of the loop body: what Run does with the step's (result, err).
LoopHandleResult ==
    /\ pc = "stepped"
    /\ LET c == CompleteCurrentStep(memory, stepObj)
       IN  /\ memory' = c.mem
           /\ stepObj' = c.obj
    /\ IF err # NoErr
       THEN /\ lastError' = err
            /\ pc' = "exit"
            /\ UNCHANGED <<finalAnswer, step>>
       ELSE IF result # NilValue
       THEN /\ finalAnswer' = result
            /\ pc' = "exit"
            /\ UNCHANGED <<lastError, step>>
       ELSE /\ step' = step + 1
            /\ pc' = "loop"
            /\ UNCHANGED <<finalAnswer, lastError>>
    /\ UNCHANGED <<fnTool, cancelled, runs, prevTask, trace, memOp, agent, newErr, newArgs, task, response, toolName, args, result, err,
                   modelCalls, toolExecs>>

\* fmt.Errorf("agent reached maximum number of steps (%d) without finding an answer", n)
ErrMaxSteps(n) ==
    ErrNew(<<"agent reached maximum number of steps (">> \o FormatInt(n)
           \o <<") without finding an answer">>)

\* A variant of the return that reports exhaustion whenever no step failed,
\* whether or not an answer was found.
RunReturnAlwaysFailing ==
    /\ \/ pc = "exit"
       \/ pc = "loop" /\ step >= agent.maxSteps
    /\ lastError' = IF lastError = NoErr
                    THEN ErrMaxSteps(agent.maxSteps) ELSE lastError
    /\ pc' = "returned"
    /\ UNCHANGED <<fnTool, cancelled, runs, prevTask, trace, memOp, agent, newErr, newArgs, memory, stepObj, task, step, response, toolName,
                   args, result, err, finalAnswer, modelCalls, toolExecs>>

\* A variant of the return that reports no exhaustion error.
RunReturnSilently ==
    /\ \/ pc = "exit"
       \/ pc = "loop" /\ step >= agent.maxSteps
    /\ pc' = "returned"
    /\ UNCHANGED <<fnTool, cancelled, runs, prevTask, trace, memOp, agent, newErr, newArgs, memory, stepObj, task, step, response, toolName,
                   args, result, err, finalAnswer, lastError, modelCalls, toolExecs>>

\* After the loop: the exhaustion error, and the return.
RunReturn ==
    /\ \/ pc = "exit"
       \/ pc = "loop" /\ step >= agent.maxSteps
    /\ lastError' = IF finalAnswer = NilValue /\ lastError = NoErr
                    THEN ErrMaxSteps(agent.maxSteps) ELSE lastError
    /\ pc' = "returned"
    /\ UNCHANGED <<fnTool, cancelled, runs, prevTask, trace, memOp, agent, newErr, newArgs, memory, stepObj, task, step, response, toolName,
                   args, result, err, finalAnswer, modelCalls, toolExecs>>

Next ==
    \/ CallNewBaseAgent
    \/ CallNewCodeAgent
    \/ CallNewToolCallingAgent
    \/ CallSetStepper
    \/ RunBegin
    \/ LoopOpenStep
    \/ BaseAgentStep
    \/ ToolCallingAgentStep
    \/ ToolCallingAgentDispatch
    \/ CodeAgentStep
    \/ CodeAgentDispatch
    \/ LoopHandleResult
    \/ RunReturn

Spec == Init /\ [][Next]_vars

\* Run is straight-line code around its loop: once a step strategy has
\* returned, the rest of the loop body runs, and once the loop is left, Run
\* returns.  Nothing is assumed of the model or of the tools.
FairSpec == Spec /\ WF_vars(LoopHandleResult) /\ WF_vars(RunReturn)

\* The caller cancels the ctx it handed to Run, between two iterations of
\* the loop: one iteration has ended and the next is still to begin.
Cancel ==
    /\ pc = "loop"
    /\ step >= 1
    /\ step < agent.maxSteps
    /\ step < MaxIter
    /\ ~cancelled
    /\ cancelled' = TRUE
    /\ UNCHANGED <<fnTool, runs, prevTask, trace, memOp, agent, newErr, newArgs, memory, stepObj,
                   pc, task, step, response, toolName, args, result, err, finalAnswer,
                   lastError, modelCalls, toolExecs>>

\* The agents whose Runs are followed under cancellation: each kind, built
\* with one or both tools, without options or with a budget of two steps.
CancelConstructors == {"NewBaseAgent", "NewCodeAgent", "NewToolCallingAgent"}
CancelOptionLists == {<< >>, <<WithMaxSteps(2)>>}

ConstructorResult(fn, tools, model, opts) ==
    CASE fn = "NewBaseAgent" -> NewBaseAgent(tools, model, opts)
      [] fn = "NewCodeAgent" -> NewCodeAgent(tools, model, opts)
      [] fn = "NewToolCallingAgent" -> NewToolCallingAgent(tools, model, opts)

\* The state after one of these constructor calls.
CancelInit ==
    /\ \E fn \in CancelConstructors, tools \in ToolLists \ {<< >>},
          opts \in CancelOptionLists :
           /\ agent = ConstructorResult(fn, tools, "mock", opts).agent
           /\ newErr = ConstructorResult(fn, tools, "mock", opts).err
           /\ newArgs = [opts |-> opts, tools |-> tools, model |-> "mock", fn |-> fn]
    /\ memory = NewMemory
    /\ stepObj = NoStepObj
    /\ pc = "idle"
    /\ task = << >>
    /\ step = 0
    /\ response = << >>
    /\ toolName = << >>
    /\ args = EmptyMap
    /\ result = NilValue
    /\ err = NoErr
    /\ finalAnswer = NilValue
    /\ lastError = NoErr
    /\ modelCalls = << >>
    /\ toolExecs = << >>
    /\ prevTask = << >>
    /\ trace = << >>
    /\ memOp = NoMemOp
    /\ cancelled = FALSE
    /\ runs = NoRuns
    /\ fnTool = NoFnTool

\* The behaviours of Run with a caller that may cancel.
NextCancel ==
    \/ CallSetStepper
    \/ RunBegin
    \/ LoopOpenStep
    \/ BaseAgentStep
    \/ ToolCallingAgentStep
    \/ ToolCallingAgentDispatch
    \/ CodeAgentStep
    \/ CodeAgentDispatch
    \/ LoopHandleResult
    \/ RunReturn
    \/ Cancel

CancelSpec == CancelInit /\ [][NextCancel]_vars

\* The Runs of one of these agents, one after another, with the task of the
\* previous Run on record.
NextTracked ==
    \/ CallSetStepper
    \/ RunBeginTracked
    \/ LoopOpenStep
    \/ BaseAgentStep
    \/ ToolCallingAgentStep
    \/ ToolCallingAgentDispatch
    \/ CodeAgentStep
    \/ CodeAgentDispatch
    \/ LoopHandleResult
    \/ RunReturn

TrackedSpec == CancelInit /\ [][NextTracked]_vars

\* The same behaviours when every call returns: the model and the tools
\* answer every call, and Run's own statements are straight-line code, so
\* no statement of a Run in progress waits for ever.  Nothing is assumed of
\* the caller: it need not call Run, SetStepper or cancel.
FairRunSpec ==
    /\ CancelSpec
    /\ WF_vars(LoopOpenStep)
    /\ WF_vars(BaseAgentStep)
    /\ WF_vars(ToolCallingAgentStep)
    /\ WF_vars(ToolCallingAgentDispatch)
    /\ WF_vars(CodeAgentStep)
    /\ WF_vars(CodeAgentDispatch)
    /\ WF_vars(LoopHandleResult)
    /\ WF_vars(RunReturn)

(***************************************************************************)
(* pkg/memory used directly: a caller that holds a Memory and calls        *)
(* Add*Step, AddToolCall and CompleteCurrentStep in any order, as          *)
(* memory_test.go does.  trace keeps what the caller passed in.            *)
(***************************************************************************)
SysMsg == Message(RoleSystem, <<"System">>, << >>)
UserMsg == Message(RoleUser, <<"User">>, << >>)
AssistantMsg == Message(RoleAssistant, <<"Assistant">>, << >>)

\* the message lists passed to Add*Step
MemMessageLists == {<<UserMsg>>, <<SysMsg, AssistantMsg>>}

\* the (name, args, output, err) passed to AddToolCall
MemToolCalls ==
    {[name |-> <<"tool1">>, args |-> EmptyMap, output |-> StrV(<<"output1">>),
      err |-> NoErr],
     [name |-> <<"error_tool">>, args |-> Args1, output |-> NilValue,
      err |-> ErrNew(<<"test error">>)]}

runVars ==
    <<agent, newErr, newArgs, pc, task, step, response, toolName, args, result, err,
      finalAnswer, lastError, modelCalls, toolExecs, prevTask, cancelled, runs, fnTool>>

MemInit ==
    /\ agent = NoAgent
    /\ newErr = NoErr
    /\ newArgs = NoArgs
    /\ memory = NewMemory
    /\ stepObj = NoStepObj
    /\ pc = "mem"
    /\ task = << >>
    /\ step = 0
    /\ response = << >>
    /\ toolName = << >>
    /\ args = EmptyMap
    /\ result = NilValue
    /\ err = NoErr
    /\ finalAnswer = NilValue
    /\ lastError = NoErr
    /\ modelCalls = << >>
    /\ toolExecs = << >>
    /\ prevTask = << >>
    /\ trace = << >>
    /\ memOp = NoMemOp
    /\ cancelled = FALSE
    /\ runs = NoRuns
    /\ fnTool = NoFnTool

\* what the caller has passed in so far
TraceOpened(tr, type, messages) ==
    Append(tr, [Type |-> type, Messages |-> messages, ToolCalls |-> << >>,
                closed |-> FALSE])

\* the caller has a step open: it opened one and has not completed it since
TraceHasOpen(tr) == tr # << >> /\ ~tr[Len(tr)].closed

TraceRecorded(tr, c) ==
    IF TraceHasOpen(tr)
    THEN [tr EXCEPT ![Len(tr)].ToolCalls =
              Append(@, ToolCall(c.name, c.args, c.output, c.err))]
    ELSE tr

TraceCompleted(tr) ==
    IF TraceHasOpen(tr) THEN [tr EXCEPT ![Len(tr)].closed = TRUE] ELSE tr

TraceCalls(tr) == {<<i, j>> \in (DOMAIN tr) \X (1..MaxMemCalls + 1) : j <= Len(tr[i].ToolCalls)}

CallAddSystemPromptStep ==
    /\ pc = "mem"
    /\ Len(memory.Steps) < MaxMemSteps
    /\ \E messages \in MemMessageLists :
          /\ memory' = AddSystemPromptStep(memory, messages).mem
          /\ stepObj' = AddSystemPromptStep(memory, messages).obj
          /\ trace' = TraceOpened(trace, "system_prompt", messages)
    /\ memOp' = [op |-> "AddSystemPromptStep", ret |-> "step"]
    /\ UNCHANGED runVars

CallAddTaskStep ==
    /\ pc = "mem"
    /\ Len(memory.Steps) < MaxMemSteps
    /\ \E messages \in MemMessageLists :
          /\ memory' = AddTaskStep(memory, messages).mem
          /\ stepObj' = AddTaskStep(memory, messages).obj
          /\ trace' = TraceOpened(trace, "task", messages)
    /\ memOp' = [op |-> "AddTaskStep", ret |-> "step"]
    /\ UNCHANGED runVars

CallAddActionStep ==
    /\ pc = "mem"
    /\ Len(memory.Steps) < MaxMemSteps
    /\ \E messages \in MemMessageLists :
          /\ memory' = AddActionStep(memory, messages).mem
          /\ stepObj' = AddActionStep(memory, messages).obj
          /\ trace' = TraceOpened(trace, "action", messages)
    /\ memOp' = [op |-> "AddActionStep", ret |-> "step"]
    /\ UNCHANGED runVars

CallAddPlanningStep ==
    /\ pc = "mem"
    /\ Len(memory.Steps) < MaxMemSteps
    /\ \E messages \in MemMessageLists :
          /\ memory' = AddPlanningStep(memory, messages).mem
          /\ stepObj' = AddPlanningStep(memory, messages).obj
          /\ trace' = TraceOpened(trace, "planning", messages)
    /\ memOp' = [op |-> "AddPlanningStep", ret |-> "step"]
    /\ UNCHANGED runVars

\* AddToolCall returns nil when no step is current, else the new record.
CallAddToolCall ==
    /\ pc = "mem"
    /\ Cardinality(TraceCalls(trace)) < MaxMemCalls
    /\ \E c \in MemToolCalls :
          /\ stepObj' = AddToolCall(memory, stepObj, c.name, c.args, c.output, c.err)
          /\ trace' = TraceRecorded(trace, c)
    /\ memOp' = [op |-> "AddToolCall",
                 ret |-> IF memory.curStep = "nil" THEN "nil" ELSE "toolcall"]
    /\ UNCHANGED memory
    /\ UNCHANGED runVars

CallCompleteCurrentStep ==
    /\ pc = "mem"
    /\ memory' = CompleteCurrentStep(memory, stepObj).mem
    /\ stepObj' = CompleteCurrentStep(memory, stepObj).obj
    /\ trace' = TraceCompleted(trace)
    /\ memOp' = [op |-> "CompleteCurrentStep", ret |-> "nil"]
    /\ UNCHANGED runVars

MemNext ==
    \/ CallAddSystemPromptStep
    \/ CallAddTaskStep
    \/ CallAddActionStep
    \/ CallAddPlanningStep
    \/ CallAddToolCall
    \/ CallCompleteCurrentStep

MemSpec == MemInit /\ [][MemNext]_vars

(***************************************************************************)
(* Step called by a caller of its own, as the tests of the agents package  *)
(* do: the agent is constructed, the caller opens an action step on the    *)
(* agent's transcript with the task as its only message and hands it to    *)
(* Step of the agent's own type.  Run is not involved.                     *)
(***************************************************************************)
DirectInit ==
    /\ \E fn \in {"NewCodeAgent", "NewToolCallingAgent"}, tools \in ToolLists \ {<< >>},
          opts \in CancelOptionLists :
           /\ agent = ConstructorResult(fn, tools, "mock", opts).agent
           /\ newErr = ConstructorResult(fn, tools, "mock", opts).err
           /\ newArgs = [opts |-> opts, tools |-> tools, model |-> "mock", fn |-> fn]
    /\ memory = NewMemory
    /\ stepObj = NoStepObj
    /\ pc = "direct"
    /\ task = << >>
    /\ step = 0
    /\ response = << >>
    /\ toolName = << >>
    /\ args = EmptyMap
    /\ result = NilValue
    /\ err = NoErr
    /\ finalAnswer = NilValue
    /\ lastError = NoErr
    /\ modelCalls = << >>
    /\ toolExecs = << >>
    /\ prevTask = << >>
    /\ trace = << >>
    /\ memOp = NoMemOp
    /\ cancelled = FALSE
    /\ runs = NoRuns
    /\ fnTool = NoFnTool

\* step := agent.GetMemory().AddActionStep(task, messages), then the call
\* of agent.Step(ctx, step).
DirectOpenStep ==
    /\ pc = "direct"
    /\ \E t \in Tasks :
          /\ task' = t
          /\ memory' = AddActionStep(memory, <<Message(RoleUser, t, << >>)>>).mem
          /\ stepObj' = AddActionStep(memory, <<Message(RoleUser, t, << >>)>>).obj
    /\ pc' = "step"
    /\ UNCHANGED <<fnTool, cancelled, runs, prevTask, trace, memOp, agent, newErr, newArgs, step,
                   response, toolName, args, result, err, finalAnswer, lastError,
                   modelCalls, toolExecs>>

DirectNext ==
    \/ DirectOpenStep
    \/ ToolCallingAgentStep
    \/ ToolCallingAgentDispatch
    \/ CodeAgentStepMethod
    \/ CodeAgentDispatch

DirectSpec == DirectInit /\ [][DirectNext]_vars

(***************************************************************************)
(* pkg/tools: FunctionTool.  A Go type is modelled by its reflect.Kind, a   *)
(* function type by the kinds of its parameters and of its results; the    *)
(* result kind "error" is the interface type error.  What the wrapped      *)
(* function returns when it is called is up to the function: it is drawn   *)
(* from the values of its result types.                                    *)
(***************************************************************************)
MaxParams == 2

\* fmt.Sprintf("arg%d", i)
ParamName(i) == <<"a", "r", "g">> \o FormatInt(i)

goTypeToJSONType(kind) ==
    CASE kind = "string" -> [type |-> "string", err |-> NoErr]
      [] kind = "bool" -> [type |-> "boolean", err |-> NoErr]
      [] kind \in {"int", "int64", "uint"} -> [type |-> "integer", err |-> NoErr]
      [] kind \in {"float32", "float64"} -> [type |-> "number", err |-> NoErr]
      [] kind \in {"slice", "array"} -> [type |-> "array", err |-> NoErr]
      [] kind \in {"map", "struct"} -> [type |-> "object", err |-> NoErr]
      [] OTHER -> [type |-> "", err |-> ErrNew(<<"unsupported type: ", kind>>)]

PropertyDef(i, kind) ==
    [Type |-> goTypeToJSONType(kind).type,
     Description |-> <<"Parameter ">> \o FormatInt(i) \o <<" of type ", kind>>]

\* A variant of createSchemaFromFunction that numbers the parameters from one.
createSchemaFromFunctionFromOne(fn) ==
    LET n == Len(fn.In)
        bad == {i \in 1..n : goTypeToJSONType(fn.In[i]).err # NoErr}
    IN  IF bad # {}
        THEN [err |-> goTypeToJSONType(fn.In[CHOOSE i \in bad : \A j \in bad : i <= j]).err,
              schema |-> "nil"]
        ELSE [err |-> NoErr,
              schema |-> [Type |-> "object",
                          Properties |-> [k \in {ParamName(i) : i \in 1..n} |->
                              LET i == CHOOSE j \in 1..n : ParamName(j) = k
                              IN  PropertyDef(i, fn.In[i])],
                          Required |-> [i \in 1..n |-> ParamName(i)]]]

\* createSchemaFromFunction: the first parameter of an unsupported type
\* ends the loop with its error.
createSchemaFromFunction(fn) ==
    LET n == Len(fn.In)
        bad == {i \in 1..n : goTypeToJSONType(fn.In[i]).err # NoErr}
    IN  IF bad # {}
        THEN [err |-> goTypeToJSONType(fn.In[CHOOSE i \in bad : \A j \in bad : i <= j]).err,
              schema |-> "nil"]
        ELSE [err |-> NoErr,
              schema |-> [Type |-> "object",
                          Properties |-> [k \in {ParamName(i - 1) : i \in 1..n} |->
                              LET i == CHOOSE j \in 1..n : ParamName(j - 1) = k
                              IN  PropertyDef(i - 1, fn.In[i])],
                          Required |-> [i \in 1..n |-> ParamName(i - 1)]]]

NewFunctionTool(name, description, fn) ==
    IF name = << >>
    THEN [tool |-> NoFnTool, err |-> ErrNew(<<"tool name cannot be empty">>)]
    ELSE IF description = << >>
    THEN [tool |-> NoFnTool, err |-> ErrNew(<<"tool description cannot be empty">>)]
    ELSE IF fn.kind # "func"
    THEN [tool |-> NoFnTool, err |-> ErrNew(<<"fn must be a function, got ", fn.kind>>)]
    ELSE IF createSchemaFromFunction(fn).err # NoErr
    THEN [tool |-> NoFnTool,
          err |-> ErrWrap("failed to create schema: ", createSchemaFromFunction(fn).err)]
    ELSE [tool |-> [name |-> name, description |-> description, fn |-> fn,
                    schema |-> createSchemaFromFunction(fn).schema, calls |-> << >>],
          err |-> NoErr]

\* values of the kinds a parameter may have, besides IntV and StrV
MapV(m) == [t |-> "map", m |-> m]
StructV(m) == [t |-> "struct", m |-> m]
ErrV(e) == [t |-> "error", e |-> e]

\* reflect.Zero(targetType)
ZeroValue(kind) ==
    CASE kind = "int" -> IntV(0)
      [] kind = "string" -> StrV(<< >>)
      [] kind = "struct" -> StructV(EmptyMap)

\* convertArgument: nil gives the zero value; a value of a type convertible
\* to the target is converted (an int to a string gives the text of that
\* code point); any other value goes through json.Marshal and
\* json.Unmarshal into the target, which takes an object for a struct and
\* refuses a string or a number for a type of another shape.
convertArgument(arg, kind) ==
    IF arg = NilValue THEN [value |-> ZeroValue(kind), err |-> NoErr]
    ELSE IF (arg.t = "int" /\ kind = "int") \/ (arg.t = "str" /\ kind = "string")
    THEN [value |-> arg, err |-> NoErr]
    ELSE IF arg.t = "int" /\ kind = "string"
    THEN [value |-> StrV(<<"\\u">> \o FormatInt(arg.i)), err |-> NoErr]
    ELSE IF arg.t = "map" /\ kind = "struct"
    THEN [value |-> StructV(arg.m), err |-> NoErr]
    ELSE [value |-> NilValue,
          err |-> ErrNew(<<"failed to unmarshal argument: ", "json error">>)]

\* A variant of prepareArguments that looks for every name before it
\* converts any value.
RECURSIVE prepareArgumentsPresenceFirst(_, _)
prepareArgumentsPresenceFirst(fn, as) ==
    LET n == Len(fn.In)
        absent == {i \in 1..n : ParamName(i - 1) \notin DOMAIN as}
        first == CHOOSE i \in absent : \A j \in absent : i <= j
        last == convertArgument(as[ParamName(n - 1)], fn.In[n])
        before == prepareArgumentsPresenceFirst([fn EXCEPT !.In = SubSeq(fn.In, 1, n - 1)], as)
    IN  IF absent # {}
        THEN [callArgs |-> << >>,
              err |-> ErrNew(<<"missing required argument: ">> \o ParamName(first - 1))]
        ELSE IF n = 0 THEN [callArgs |-> << >>, err |-> NoErr]
        ELSE IF before.err # NoErr THEN before
        ELSE IF last.err # NoErr
        THEN [callArgs |-> << >>,
              err |-> [e |-> "err",
                       msg |-> <<"failed to convert argument ">> \o ParamName(n - 1)
                               \o <<": ">> \o last.err.msg]]
        ELSE [callArgs |-> Append(before.callArgs, last.value), err |-> NoErr]

\* prepareArguments: parameter by parameter, the name is looked up and the
\* value converted; the first parameter that fails ends the loop.
RECURSIVE prepareArguments(_, _)
prepareArguments(fn, as) ==
    LET n == Len(fn.In)
        last == convertArgument(as[ParamName(n - 1)], fn.In[n])
        before == prepareArguments([fn EXCEPT !.In = SubSeq(fn.In, 1, n - 1)], as)
    IN  IF n = 0 THEN [callArgs |-> << >>, err |-> NoErr]
        ELSE IF before.err # NoErr THEN before
        ELSE IF ParamName(n - 1) \notin DOMAIN as
        THEN [callArgs |-> << >>,
              err |-> ErrNew(<<"missing required argument: ">> \o ParamName(n - 1))]
        ELSE IF last.err # NoErr
        THEN [callArgs |-> << >>,
              err |-> [e |-> "err",
                       msg |-> <<"failed to convert argument ">> \o ParamName(n - 1)
                               \o <<": ">> \o last.err.msg]]
        ELSE [callArgs |-> Append(before.callArgs, last.value), err |-> NoErr]

\* FunctionTool.Execute; results is what fn returns when it is called.  A
\* result of type error is nil (NilValue) or ErrV(e).
Execute(t, as, results) ==
    LET prep == prepareArguments(t.fn, as)
        n == Len(results)
    IN  IF prep.err # NoErr
        THEN [result |-> NilValue, err |-> ErrWrap("failed to prepare arguments: ", prep.err),
              invoked |-> FALSE, callArgs |-> << >>]
        ELSE IF n = 0
        THEN [result |-> NilValue, err |-> NoErr, invoked |-> TRUE,
              callArgs |-> prep.callArgs]
        ELSE IF Len(t.fn.Out) > 1 /\ t.fn.Out[n] = "error"
        THEN IF results[n] # NilValue
             THEN [result |-> NilValue, err |-> results[n].e, invoked |-> TRUE,
                   callArgs |-> prep.callArgs]
             ELSE [result |-> results[1], err |-> NoErr, invoked |-> TRUE,
                   callArgs |-> prep.callArgs]
        ELSE [result |-> results[1], err |-> NoErr, invoked |-> TRUE,
              callArgs |-> prep.callArgs]

\* The function types handed to NewFunctionTool: up to MaxParams parameters
\* of kind int, string, struct or chan, and no result, a value, a failure,
\* a value and a failure, or two values.
FnParamKinds == {"int", "string", "struct", "chan"}
FnParamLists == UNION {[1..n -> FnParamKinds] : n \in 0..MaxParams}
FnResultLists == {<< >>, <<"int">>, <<"error">>, <<"int", "error">>, <<"int", "int">>}
Functions ==
    {[kind |-> "func", In |-> in, Out |-> out] : in \in FnParamLists, out \in FnResultLists}
NotAFunction == [kind |-> "int", In |-> << >>, Out |-> << >>]

\* what a function of these result types may return
FnFailure == ErrV(ErrNew(<<"boom">>))
FnResults(fn) ==
    CASE fn.Out = << >> -> {<< >>}
      [] fn.Out = <<"int">> -> {<<IntV(12)>>}
      [] fn.Out = <<"error">> -> {<<NilValue>>, <<FnFailure>>}
      [] fn.Out = <<"int", "error">> -> {<<IntV(12), NilValue>>, <<IntV(0), FnFailure>>}
      [] fn.Out = <<"int", "int">> -> {<<IntV(12), IntV(7)>>}

\* the argument mappings handed to Execute
PersonMap == MapV((<<"Name">> :> StrV(<<"Alice">>)) @@ (<<"Age">> :> IntV(30)))
ArgValues == {IntV(5), StrV(<<"World">>), NilValue, PersonMap}
ArgMaps ==
    UNION {[ks -> ArgValues] : ks \in SUBSET {ParamName(i) : i \in 0..(MaxParams - 1)}}

ToolsInit ==
    /\ agent = NoAgent
    /\ newErr = NoErr
    /\ newArgs = NoArgs
    /\ memory = NewMemory
    /\ stepObj = NoStepObj
    /\ pc = "tools"
    /\ task = << >>
    /\ step = 0
    /\ response = << >>
    /\ toolName = << >>
    /\ args = EmptyMap
    /\ result = NilValue
    /\ err = NoErr
    /\ finalAnswer = NilValue
    /\ lastError = NoErr
    /\ modelCalls = << >>
    /\ toolExecs = << >>
    /\ prevTask = << >>
    /\ trace = << >>
    /\ memOp = NoMemOp
    /\ cancelled = FALSE
    /\ runs = NoRuns
    /\ fnTool = NoFnTool

toolsVars ==
    <<agent, memory, stepObj, task, step, response, toolName, finalAnswer, lastError,
      modelCalls, toolExecs, prevTask, trace, memOp, cancelled, runs>>

\* tool, err := NewFunctionTool(name, description, fn)
CallNewFunctionTool ==
    /\ pc = "tools"
    /\ \E name \in {<<"add">>, << >>}, description \in {<<"Adds two numbers">>, << >>},
          fn \in Functions \cup {NotAFunction} :
          /\ fnTool' = NewFunctionTool(name, description, fn).tool
          /\ newErr' = NewFunctionTool(name, description, fn).err
          /\ newArgs' = [name |-> name, description |-> description, fn |-> fn]
    /\ pc' = "built"
    /\ UNCHANGED <<args, result, err>>
    /\ UNCHANGED toolsVars

\* result, err := tool.Execute(ctx, args)
CallExecute ==
    /\ pc = "built"
    /\ fnTool # NoFnTool
    /\ \E as \in ArgMaps, results \in FnResults(fnTool.fn) :
          /\ args' = as
          /\ result' = Execute(fnTool, as, results).result
          /\ err' = Execute(fnTool, as, results).err
          /\ fnTool' = IF Execute(fnTool, as, results).invoked
                       THEN [fnTool EXCEPT !.calls =
                                Append(@, [callArgs |-> Execute(fnTool, as, results).callArgs,
                                           results |-> results])]
                       ELSE fnTool
    /\ pc' = "executed"
    /\ UNCHANGED <<newErr, newArgs>>
    /\ UNCHANGED toolsVars

ToolsNext ==
    \/ CallNewFunctionTool
    \/ CallExecute

ToolsSpec == ToolsInit /\ [][ToolsNext]_vars

(***************************************************************************)
(* Properties.  The predicates below describe responses and agents         *)
(* directly, without going through the parsers of the model.               *)
(***************************************************************************)
\* the text contains three consecutive backquotes
HasFence(s) ==
    \E i \in 1..(Len(s) - 2) : s[i] = BQ /\ s[i + 1] = BQ /\ s[i + 2] = BQ

\* the text is exactly one fenced block (tagged json or untagged) holding
\* the JSON document j
IsFencedCall(resp, j) ==
    \/ resp = <<BQ, BQ, BQ, "j", "s", "o", "n", "\n", j, "\n", BQ, BQ, BQ>>
    \/ resp = <<BQ, BQ, BQ, "\n", j, "\n", BQ, BQ, BQ>>

\* a tool of exactly that name is in the agent's tool list
Registered(a, name) == \E i \in DOMAIN a.tools : a.tools[i].name = name

\* the JSON document j is a tool call: an object with a non-empty tool name
IsCallDoc(j) == JsonDocs[j].ok /\ JsonDocs[j].Tool # << >>

\* the text of the exhaustion failure for a budget of n (n < 100)
ExhaustionText(n) ==
    <<"agent reached maximum number of steps (">>
    \o (IF n < 10 THEN <<Digits[n + 1]>>
        ELSE <<Digits[(n \div 10) + 1], Digits[(n % 10) + 1]>>)
    \o <<") without finding an answer">>

NotImplementedText == <<"Step method must be implemented by derived agents">>

\* When the first response of the model holds no fenced block, the run
\* makes exactly one model call and no tool execution, stays in its first
\* iteration, the step yields that exact text with no error, and Run
\* returns it as the final answer with no failure.
C1_NoFenceAnswersInOneIteration ==
    (/\ agent.kind = "ToolCallingAgent"
     /\ modelCalls # << >>
     /\ modelCalls[1].err = NoErr
     /\ ~HasFence(modelCalls[1].response))
    => /\ Len(modelCalls) = 1
       /\ modelCalls[1].fn = "GenerateWithTools"
       /\ toolExecs = << >>
       /\ step = 0
       /\ pc \in {"stepped", "exit", "returned"}
       /\ result = StrV(modelCalls[1].response)
       /\ err = NoErr
       /\ (pc \in {"exit", "returned"}
           => /\ finalAnswer = StrV(modelCalls[1].response)
              /\ lastError = NoErr)

\* the first response of a ToolCallingAgent Run holds no fenced block
C1_FirstResponsePlain ==
    /\ agent.kind = "ToolCallingAgent"
    /\ modelCalls # << >>
    /\ modelCalls[1].err = NoErr
    /\ ~HasFence(modelCalls[1].response)

C2_CodeAgentRunAnswers ==
    (agent.kind = "CodeAgent" /\ pc = "returned")
    => /\ ~(lastError # NoErr /\ lastError.msg = NotImplementedText)
       /\ modelCalls # << >>
       /\ (modelCalls[1].err = NoErr /\ ~HasFence(modelCalls[1].response))
           => /\ Len(modelCalls) = 1
              /\ finalAnswer = StrV(modelCalls[1].response)
              /\ lastError = NoErr

\* the step that has just run answered a fenced JSON call of a registered tool
C3_CallOfRegisteredTool(j) ==
    /\ pc = "stepped"
    /\ modelCalls # << >>
    /\ modelCalls[Len(modelCalls)].err = NoErr
    /\ IsFencedCall(modelCalls[Len(modelCalls)].response, j)
    /\ IsCallDoc(j)
    /\ Registered(agent, JsonDocs[j].Tool)

C3_ExecutedOnce(j) ==
    /\ Len(toolExecs) = Len(modelCalls)
    /\ toolExecs[Len(toolExecs)].name = JsonDocs[j].Tool
    /\ toolExecs[Len(toolExecs)].args = JsonDocs[j].Args
    /\ Len(stepObj.ToolCalls) = 1
    /\ (toolExecs[Len(toolExecs)].ok
        => /\ err = NoErr
           /\ result = NilValue
           /\ finalAnswer = NilValue
           /\ stepObj.ToolCalls[1].Error = << >>)

\* C3: when the response is a fenced JSON call of a registered tool, the
\* step executes that tool exactly once with exactly the arguments of the
\* response; when Execute succeeded the step reports no final answer and no
\* error, and Run goes on to the next iteration.
C3_ToolCallContinues ==
    /\ [](\A j \in JsonSymbols : C3_CallOfRegisteredTool(j) => C3_ExecutedOnce(j))
    /\ [][\A j \in JsonSymbols :
            (C3_CallOfRegisteredTool(j) /\ toolExecs[Len(toolExecs)].ok)
            => /\ pc' = "loop"
               /\ step' = step + 1
               /\ finalAnswer' = NilValue
               /\ lastError' = NoErr
               /\ toolExecs' = toolExecs
               /\ modelCalls' = modelCalls]_vars

C3_Witness ==
    /\ agent.kind = "ToolCallingAgent"
    /\ Len(modelCalls) = 2
    /\ IsFencedCall(modelCalls[1].response, JTestTool)
    /\ toolExecs # << >>
    /\ toolExecs[1] = [ok |-> TRUE, name |-> TestToolName, args |-> Args1]
    /\ step = 1

\* C4: after an iteration that dispatched a tool successfully, the prompt of
\* the next iteration holds, after the task message, the assistant message
\* with the response of that iteration followed by a tool message named
\* after the tool.
C4_ToolResultFedBack ==
    (pc = "step" /\ step >= 1 /\ Len(modelCalls) = step /\ Len(toolExecs) = step
     /\ toolExecs[step].ok)
    => \E t \in DOMAIN stepObj.Messages, i \in DOMAIN stepObj.Messages :
          /\ t < i
          /\ i + 1 \in DOMAIN stepObj.Messages
          /\ stepObj.Messages[t] = Message(RoleUser, task, << >>)
          /\ stepObj.Messages[i] = Message(RoleAssistant, modelCalls[step].response, << >>)
          /\ stepObj.Messages[i + 1].Role = RoleTool
          /\ stepObj.Messages[i + 1].Name = toolExecs[step].name

\* C5: a Run whose every step succeeded without a final answer returns only
\* after exactly maxSteps iterations (maxSteps model calls, maxSteps tool
\* executions), with no final answer and the exhaustion failure naming
\* maxSteps.
C5_Exhaustion ==
    (pc = "returned" /\ err = NoErr /\ result = NilValue)
    => /\ agent.maxSteps >= 1
       /\ step = agent.maxSteps
       /\ Len(modelCalls) = agent.maxSteps
       /\ Len(toolExecs) = agent.maxSteps
       /\ \A k \in DOMAIN toolExecs : toolExecs[k].ok
       /\ finalAnswer = NilValue
       /\ lastError = [e |-> "err", msg |-> ExhaustionText(agent.maxSteps)]

C5_Witness ==
    /\ pc = "returned"
    /\ agent # NoAgent
    /\ agent.maxSteps = 2
    /\ step = 2
    /\ Len(modelCalls) = 2
    /\ finalAnswer = NilValue
    /\ lastError = [e |-> "err", msg |-> ExhaustionText(2)]

\* option i of the constructor call is the last one of its kind
LastOfItsKind(opts, i) ==
    \A k \in DOMAIN opts : k > i => opts[k].opt # opts[i].opt

\* C6: an agent built by NewToolCallingAgent carries the options it was
\* given: WithMaxSteps(n) bounds the iterations (and the model calls) of a
\* Run by n, WithSystemPrompt(p) makes p the system prompt, the content of
\* the system-prompt step and the first message of every prompt, and
\* WithName(s) makes GetName return s.
C6_OptionsConfigureToolCallingAgent ==
    (newArgs.fn = "NewToolCallingAgent" /\ agent # NoAgent)
    => \A i \in DOMAIN newArgs.opts :
          LastOfItsKind(newArgs.opts, i)
          => /\ newArgs.opts[i].opt = "WithMaxSteps"
                => /\ agent.maxSteps = newArgs.opts[i].maxSteps
                   /\ step <= newArgs.opts[i].maxSteps
                   /\ Len(modelCalls) <= newArgs.opts[i].maxSteps
             /\ newArgs.opts[i].opt = "WithSystemPrompt"
                => /\ agent.systemPrompt = newArgs.opts[i].systemPrompt
                   /\ memory.Steps # << >>
                      => memory.Steps[1].Messages[1].Content
                            = newArgs.opts[i].systemPrompt
                   /\ \A k \in DOMAIN modelCalls :
                         modelCalls[k].messages[1].Content
                            = newArgs.opts[i].systemPrompt
             /\ newArgs.opts[i].opt = "WithName"
                => GetName(agent) = newArgs.opts[i].name

\* the constructor call was given an empty tool list, a nil model, or a
\* WithMaxSteps of a value <= 0
C7_BadArguments ==
    \/ Len(newArgs.tools) = 0
    \/ newArgs.model = "nil"
    \/ \E i \in DOMAIN newArgs.opts :
          newArgs.opts[i].opt = "WithMaxSteps" /\ newArgs.opts[i].maxSteps <= 0

\* C7: every constructor returns a failure and no agent when the tool list
\* is empty, the model is nil or WithMaxSteps is given a value <= 0; a
\* constructor returns an agent or a failure, never both; and no agent
\* has maxSteps <= 0.
C7_ConstructionFailsFast ==
    /\ agent # NoAgent => agent.maxSteps > 0
    /\ newArgs.fn # "none"
       => /\ C7_BadArguments => (agent = NoAgent /\ newErr # NoErr)
          /\ (agent = NoAgent) <=> (newErr # NoErr)

C7_Witness ==
    /\ newArgs.fn = "NewToolCallingAgent"
    /\ newArgs.tools = <<TestTool>>
    /\ newArgs.model = "mock"
    /\ newArgs.opts = <<WithMaxSteps(0)>>
    /\ agent = NoAgent
    /\ newErr # NoErr

\* model call k of the Run answered a fenced JSON call of a tool that is not
\* registered
C8_CallOfUnknownTool(k) ==
    /\ modelCalls[k].err = NoErr
    /\ \E j \in JsonSymbols :
          /\ IsFencedCall(modelCalls[k].response, j)
          /\ IsCallDoc(j)
          /\ ~Registered(agent, JsonDocs[j].Tool)

\* C8: when the model names a tool that is not registered, that model call
\* is the last of the Run, no tool is executed in its iteration, the step
\* holds no tool-call record, the step fails and Run ends in that iteration
\* with a failure and no final answer.
C8_UnknownToolAbortsRun ==
    \A k \in DOMAIN modelCalls :
        C8_CallOfUnknownTool(k)
        => /\ k = Len(modelCalls)
           /\ step = k - 1
           /\ Len(toolExecs) = k - 1
           /\ stepObj.ToolCalls = << >>
           /\ pc \in {"dispatch", "stepped", "exit", "returned"}
           /\ finalAnswer = NilValue
           /\ pc # "dispatch"
              => /\ result = NilValue
                 /\ err # NoErr
                 /\ err.msg[1] = "failed to execute tool call: "
                 /\ err.msg[2] = "tool not found: "
           /\ pc \in {"exit", "returned"} => lastError = err

C8_Witness ==
    /\ pc = "returned"
    /\ Len(modelCalls) = 2
    /\ modelCalls[2].response = RespCallUnknown
    /\ Len(toolExecs) = 1
    /\ lastError # NoErr
    /\ finalAnswer = NilValue

\* C9: when Execute fails, that execution is the last call of the Run, the
\* step holds exactly one tool-call record - the tool, the arguments and
\* the text of the failure -, the step fails and Run ends in that iteration
\* with a failure and no final answer.
C9_ToolFailureRecordedAndFatal ==
    \A k \in DOMAIN toolExecs :
        ~toolExecs[k].ok
        => /\ k = Len(toolExecs)
           /\ Len(modelCalls) = k
           /\ step = k - 1
           /\ pc \in {"stepped", "exit", "returned"}
           /\ Len(stepObj.ToolCalls) = 1
           /\ stepObj.ToolCalls[1].Name = toolExecs[k].name
           /\ stepObj.ToolCalls[1].Arguments = toolExecs[k].args
           /\ stepObj.ToolCalls[1].Error = <<"tool failed">>
           /\ result = NilValue
           /\ err # NoErr
           /\ finalAnswer = NilValue
           /\ pc \in {"exit", "returned"} => lastError = err

C9_Witness ==
    /\ pc = "returned"
    /\ Len(toolExecs) = 2
    /\ ~toolExecs[2].ok
    /\ Len(stepObj.ToolCalls) = 1
    /\ stepObj.ToolCalls[1].Error = <<"tool failed">>
    /\ lastError # NoErr

\* C10: when model call k fails, it is the last model call of the Run, no
\* tool is executed in iteration k, the step fails, and Run ends in that
\* iteration with the failure and no final answer, the action step closed
\* (the step object stamped, no current step left).
C10_ModelFailureFatal ==
    \A k \in DOMAIN modelCalls :
        modelCalls[k].err # NoErr
        => /\ k = Len(modelCalls)
           /\ step = k - 1
           /\ Len(toolExecs) = k - 1
           /\ stepObj.ToolCalls = << >>
           /\ pc \in {"stepped", "exit", "returned"}
           /\ result = NilValue
           /\ err = [e |-> "err",
                     msg |-> <<"failed to generate response: ">> \o modelCalls[k].err.msg]
           /\ finalAnswer = NilValue
           /\ pc \in {"exit", "returned"}
              => /\ lastError = err
                 /\ memory.curStep = "nil"
                 /\ stepObj.Type = "action"
                 /\ stepObj.Ended

C10_Witness ==
    /\ pc = "returned"
    /\ Len(modelCalls) = 2
    /\ modelCalls[2].err # NoErr
    /\ Len(toolExecs) = 1
    /\ lastError # NoErr
    /\ finalAnswer = NilValue
    /\ stepObj.Ended

(***************************************************************************)
(* Transcript of the most recent Run.                                      *)
(***************************************************************************)
StepsOfType(m, type) == {i \in DOMAIN m.Steps : m.Steps[i].Type = type}

\* the messages of all steps of the transcript, as a set
TranscriptMessages(m) ==
    UNION {{m.Steps[i].Messages[j] : j \in DOMAIN m.Steps[i].Messages} :
           i \in DOMAIN m.Steps}

\* C11: once Run has been called, however many Runs came before on the same
\* agent, the transcript holds exactly one system_prompt step and exactly one
\* task step, whose message is the task of this Run; its action steps are
\* those of this Run's iterations; every message in it is a system message of
\* the agent or the task of this Run (none carries the task of the Run
\* before, when that was another task); and every tool record in it is of an
\* Execute call of this Run.
C11_TranscriptOfMostRecentRunOnly ==
    pc # "idle" =>
        /\ Cardinality(StepsOfType(memory, "system_prompt")) = 1
        /\ Cardinality(StepsOfType(memory, "task")) = 1
        /\ \A i \in StepsOfType(memory, "task") :
              memory.Steps[i].Messages = <<Message(RoleUser, task, << >>)>>
        /\ Cardinality(StepsOfType(memory, "action")) <= step + 1
        /\ Len(memory.Steps) = 2 + Cardinality(StepsOfType(memory, "action"))
        /\ \A msg \in TranscriptMessages(memory) :
              \/ msg.Role = RoleSystem
                 /\ msg.Content \in {agent.systemPrompt, buildToolsDescription(agent)}
              \/ msg.Role = RoleUser /\ msg.Content = task
        /\ prevTask # task
              => \A msg \in TranscriptMessages(memory) : msg.Content # prevTask
        /\ \A i \in DOMAIN GetToolCalls(memory) :
              \E k \in DOMAIN toolExecs :
                  /\ toolExecs[k].name = GetToolCalls(memory)[i].Name
                  /\ toolExecs[k].args = GetToolCalls(memory)[i].Arguments

\* a second Run, on another task than the first, has returned after at least
\* one iteration
C11_Witness ==
    /\ pc = "returned"
    /\ prevTask # << >>
    /\ prevTask # task
    /\ Len(memory.Steps) >= 3

\* the number of times Run has invoked the step strategy when it returns:
\* the loop index counts the iterations completed without leaving the loop
StrategyInvocations == IF step >= agent.maxSteps THEN step ELSE step + 1

\* C12: when Run has returned, the steps of the transcript are one
\* system_prompt step holding the configured system prompt as its one
\* system message, one task step holding the task as its one user message,
\* then one action step per invocation of the step strategy, at least one and
\* at most maxSteps; no step is current and every step of the transcript has
\* its end set.
C12_TranscriptShapeAtReturn ==
    pc = "returned" =>
        /\ Len(memory.Steps) >= 3
        /\ memory.Steps[1].Type = "system_prompt"
        /\ memory.Steps[1].Messages = <<Message(RoleSystem, agent.systemPrompt, << >>)>>
        /\ memory.Steps[2].Type = "task"
        /\ memory.Steps[2].Messages = <<Message(RoleUser, task, << >>)>>
        /\ \A i \in 3..Len(memory.Steps) : memory.Steps[i].Type = "action"
        /\ Len(memory.Steps) - 2 <= agent.maxSteps
        /\ Len(memory.Steps) - 2 = StrategyInvocations
        /\ memory.curStep = "nil"
        /\ \A i \in DOMAIN GetSteps(memory) : GetSteps(memory)[i].Ended

(***************************************************************************)
(* The prompt of an iteration.                                             *)
(***************************************************************************)
\* the message lists of steps[1..n], one after the other
RECURSIVE MessagesUpTo(_, _)
MessagesUpTo(steps, n) ==
    IF n = 0 THEN << >> ELSE MessagesUpTo(steps, n - 1) \o steps[n].Messages

IsNotSystem(msg) == msg.Role # RoleSystem

\* s occurs in t
Occurs(s, t) == \E i \in 0..(Len(t) - Len(s)) : SubSeq(t, i + 1, i + Len(s)) = s

\* C13: when an action step has been opened and handed to the step
\* strategy, its prompt starts with a system message holding the configured
\* system prompt, then a system message holding the tools description
\* (which names every tool of the agent); no later message of the prompt is
\* a system message; and the messages after the second are exactly the
\* non-system messages of the steps that were in the transcript when the
\* action step was opened, in transcript order.
C13_PromptConstruction ==
    pc = "step" =>
        LET prompt == stepObj.Messages
            before == Len(memory.Steps) - 1
        IN  /\ Len(prompt) >= 2
            /\ prompt[1] = Message(RoleSystem, agent.systemPrompt, << >>)
            /\ prompt[2].Role = RoleSystem
            /\ prompt[2].Content = buildToolsDescription(agent)
            /\ \A i \in DOMAIN agent.tools : Occurs(agent.tools[i].name, prompt[2].Content)
            /\ \A i \in 3..Len(prompt) : prompt[i].Role # RoleSystem
            /\ SubSeq(prompt, 3, Len(prompt))
                   = SelectSeq(MessagesUpTo(memory.Steps, before), IsNotSystem)
            /\ memory.Steps[Len(memory.Steps)].Messages = prompt

\* the third iteration's action step has been opened: the transcript before
\* it holds the task step and two earlier action steps
C13_Witness ==
    /\ pc = "step"
    /\ step = 2
    /\ Len(stepObj.Messages) > 3

(***************************************************************************)
(* pkg/memory against what its caller passed in.                           *)
(***************************************************************************)
\* the tool calls the caller recorded in steps 1..n, in the order recorded
RECURSIVE TraceToolCallsUpTo(_, _)
TraceToolCallsUpTo(tr, n) ==
    IF n = 0 THEN << >> ELSE TraceToolCallsUpTo(tr, n - 1) \o tr[n].ToolCalls

AllClosed(tr) == \A i \in DOMAIN tr : tr[i].closed

\* C14: once the caller has completed every step it opened, GetToolCalls
\* returns the invocations it recorded while a step was open, successes and
\* failures alike, each once, in step order and in recording order.
C14_RecordedToolCallsRetrievable ==
    (pc = "mem" /\ AllClosed(trace))
    => GetToolCalls(memory) = TraceToolCallsUpTo(trace, Len(trace))

\* C15: GetMessages returns the message lists passed to the Add*Step calls,
\* one after the other in the order of the calls, whatever the kinds of the
\* steps; in particular once every step has been completed.
C15_GetMessagesIsConcatenation ==
    pc = "mem" => GetMessages(memory) = MessagesUpTo(trace, Len(trace))

\* two steps of different kinds, with different messages, opened and completed
C15_Witness ==
    /\ pc = "mem"
    /\ Len(trace) = 2
    /\ AllClosed(trace)
    /\ trace[1].Type = "planning"
    /\ trace[1].Messages = <<SysMsg, AssistantMsg>>
    /\ trace[2].Type = "task"
    /\ trace[2].Messages = <<UserMsg>>

\* C16: a step the caller has completed has its end time set in GetSteps,
\* and right after CompleteCurrentStep no step is current.
C16_CompletedStepIsStamped ==
    pc = "mem" =>
        /\ \A i \in DOMAIN trace : trace[i].closed => GetSteps(memory)[i].Ended
        /\ memOp.op = "CompleteCurrentStep" => memory.curStep = "nil"

\* C17: at most one step of the transcript has its end time unset.
C17_AtMostOneOpenStep ==
    Cardinality({i \in DOMAIN GetSteps(memory) : ~GetSteps(memory)[i].Ended}) <= 1

\* C18: an AddToolCall or CompleteCurrentStep call made while the caller has
\* no step open (none opened yet, or the last one completed) returns
\* nothing and changes neither the memory nor the step object last handed
\* out: steps, messages and tool records read the same after as before.
C18_NoOpenStepGuards ==
    [][(/\ pc = "mem"
        /\ ~TraceHasOpen(trace)
        /\ memOp'.op \in {"AddToolCall", "CompleteCurrentStep"})
       => /\ memOp'.ret = "nil"
          /\ memory' = memory
          /\ stepObj' = stepObj
          /\ GetSteps(memory') = GetSteps(memory)
          /\ GetMessages(memory') = GetMessages(memory)
          /\ GetToolCalls(memory') = GetToolCalls(memory)
          /\ memory'.curStep = "nil"]_vars

\* AddToolCall has been called, and has returned nothing, after the only
\* step, which holds an earlier record, was completed
C18_Witness ==
    /\ pc = "mem"
    /\ memOp = [op |-> "AddToolCall", ret |-> "nil"]
    /\ Len(trace) = 1
    /\ trace[1].closed
    /\ trace[1].ToolCalls # << >>

(***************************************************************************)
(* Fenced blocks of a response, read off the text directly.                *)
(***************************************************************************)
\* the text starts with p
StartsWith(s, p) == Len(s) >= Len(p) /\ SubSeq(s, 1, Len(p)) = p

\* the response is one fenced block, tagged json or untagged, and nothing else
IsLoneBlock(resp) ==
    /\ \/ StartsWith(resp, <<BQ, BQ, BQ, "j", "s", "o", "n", "\n">>)
       \/ StartsWith(resp, <<BQ, BQ, BQ, "\n">>)
    /\ Len(resp) >= 8
    /\ SubSeq(resp, Len(resp) - 3, Len(resp)) = <<"\n", BQ, BQ, BQ>>

\* the lines between the opening and the closing fence of a lone block
BlockContent(resp) ==
    IF resp[4] = "j" THEN SubSeq(resp, 9, Len(resp) - 4)
    ELSE SubSeq(resp, 5, Len(resp) - 4)

\* the content is a JSON object the decoder accepts
ParsesAsObject(content) ==
    Len(content) = 1 /\ content[1] \in JsonSymbols /\ JsonDocs[content[1]].ok

\* model call k of a ToolCallingAgent's Run answered a lone fenced block
C19_BlockAt(k) ==
    /\ agent.kind = "ToolCallingAgent"
    /\ modelCalls[k].err = NoErr
    /\ IsLoneBlock(modelCalls[k].response)

\* the step of model call k has answered with the raw response, and so has
\* Run once it has returned; no tool was executed in that iteration
C19_AnsweredRaw(k) ==
    /\ k = Len(modelCalls)
    /\ Len(toolExecs) = k - 1
    /\ pc \in {"stepped", "exit", "returned"}
    /\ result = StrV(modelCalls[k].response)
    /\ err = NoErr
    /\ pc \in {"exit", "returned"}
          => finalAnswer = StrV(modelCalls[k].response) /\ lastError = NoErr

HoldsFencedCall(resp, j) ==
    \/ Occurs(<<BQ, BQ, BQ, "j", "s", "o", "n", "\n", j, "\n", BQ, BQ, BQ>>, resp)
    \/ Occurs(<<BQ, BQ, BQ, "\n", j, "\n", BQ, BQ, BQ>>, resp)

\* C20: whenever a response of the model holds a fenced block with a valid
\* call of a registered tool, whatever text stands before the opening fence
\* or after the closing fence, the call extracted is that tool with those
\* arguments and the tool is executed with them.
C20_ExtractionIsPositionIndependent ==
    \A k \in DOMAIN modelCalls :
        \A j \in JsonSymbols :
            (/\ agent.kind = "ToolCallingAgent"
             /\ modelCalls[k].err = NoErr
             /\ HoldsFencedCall(modelCalls[k].response, j)
             /\ IsCallDoc(j)
             /\ Registered(agent, JsonDocs[j].Tool))
            => IF k = Len(modelCalls) /\ pc = "dispatch"
               THEN toolName = JsonDocs[j].Tool /\ args = JsonDocs[j].Args
               ELSE /\ Len(toolExecs) >= k
                    /\ toolExecs[k].name = JsonDocs[j].Tool
                    /\ toolExecs[k].args = JsonDocs[j].Args

\* C21: a response that is the bare JSON object of a call of a registered
\* tool, with no fence around it, is taken for a tool call: the call
\* extracted is that tool with those arguments and the tool is executed with
\* them, as for the fenced form.
C21_UnfencedCallIsDispatched ==
    \A k \in DOMAIN modelCalls :
        \A j \in JsonSymbols :
            (/\ agent.kind = "ToolCallingAgent"
             /\ modelCalls[k].err = NoErr
             /\ modelCalls[k].response = <<j>>
             /\ IsCallDoc(j)
             /\ Registered(agent, JsonDocs[j].Tool))
            => IF k = Len(modelCalls) /\ pc = "dispatch"
               THEN toolName = JsonDocs[j].Tool /\ args = JsonDocs[j].Args
               ELSE /\ Len(toolExecs) >= k
                    /\ toolExecs[k].name = JsonDocs[j].Tool
                    /\ toolExecs[k].args = JsonDocs[j].Args

(***************************************************************************)
(* The code blocks of a response, as its author wrote them.                *)
(***************************************************************************)
\* a = 1, b = 2 as integers
ArgsAdd12 == (<<"a">> :> IntV(1)) @@ (<<"b">> :> IntV(2))

\* the responses made of code blocks, with the call each block holds, in
\* order of appearance
CodeResponses ==
    {[text |-> RespCode, calls |-> <<[name |-> AddName, args |-> ArgsAdd12]>>],
     [text |-> RespBlocks,
      calls |-> <<[name |-> NopeName, args |-> (<<"a">> :> IntV(1))],
                  [name |-> AddName, args |-> ArgsAdd12],
                  [name |-> TestToolName, args |-> Args1]>>]}

\* model call k of the Run was a CodeAgent step answered with the text of d
CodeStepAnswered(k, d) ==
    /\ agent.kind = "CodeAgent"
    /\ modelCalls[k].fn = "Generate"
    /\ modelCalls[k].err = NoErr
    /\ modelCalls[k].response = d.text

RegisteredCalls(d) == {i \in DOMAIN d.calls : Registered(agent, d.calls[i].name)}

\* C22: when a CodeAgent step is answered with code blocks of which at least
\* one calls a registered tool, the tool dispatched is the one of the first
\* such block in order of appearance, with the arguments written there:
\* blocks before it are skipped, blocks after it are ignored, and the step
\* executes one tool and no more.
C22_FirstCodeBlockCallWins ==
    /\ Len(toolExecs) <= Len(modelCalls)
    /\ \A k \in DOMAIN modelCalls :
          \A d \in CodeResponses :
              (CodeStepAnswered(k, d) /\ RegisteredCalls(d) # {})
              => LET first == d.calls[Least(RegisteredCalls(d))]
                 IN  IF k = Len(modelCalls) /\ pc = "dispatch"
                     THEN /\ toolName = first.name
                          /\ args = first.args
                          /\ Len(toolExecs) = k - 1
                     ELSE /\ Len(toolExecs) >= k
                          /\ toolExecs[k].name = first.name
                          /\ toolExecs[k].args = first.args

\* an agent that has add and test_tool was answered with the three blocks
\* and has executed add
C22_Witness ==
    /\ pc = "returned"
    /\ agent.kind = "CodeAgent"
    /\ Registered(agent, AddName)
    /\ Registered(agent, TestToolName)
    /\ Len(modelCalls) = 1
    /\ modelCalls[1].response = RespBlocks
    /\ Len(toolExecs) = 1
    /\ toolExecs[1].name = AddName

\* C23: when a CodeAgent step is answered with code blocks none of which
\* calls a registered tool, and the response holds no JSON tool call, the
\* step returns the raw response as the final answer, without failure and
\* without executing a tool.
C23_CodeBlocksFallThroughToAnswer ==
    \A k \in DOMAIN modelCalls :
        \A d \in CodeResponses :
            (CodeStepAnswered(k, d) /\ RegisteredCalls(d) = {})
            => /\ k = Len(modelCalls)
               /\ Len(toolExecs) = k - 1
               /\ pc \in {"stepped", "exit", "returned"}
               /\ result = StrV(d.text)
               /\ err = NoErr
               /\ pc \in {"exit", "returned"}
                     => finalAnswer = StrV(d.text) /\ lastError = NoErr

\* model call k was a CodeAgent step answered with a lone fenced block
\* holding the JSON call j of a registered tool
C24_FencedJsonCall(k, j) ==
    /\ agent.kind = "CodeAgent"
    /\ modelCalls[k].fn = "Generate"
    /\ modelCalls[k].err = NoErr
    /\ IsFencedCall(modelCalls[k].response, j)
    /\ FirstCodeCall(agent, extractCodeBlocks(modelCalls[k].response)).tool = << >>
    /\ IsCallDoc(j)
    /\ Registered(agent, JsonDocs[j].Tool)

\* the step of model call k has executed the call j: it is recorded on the
\* step; after a success the tool message is the last message of the step
\* and the step has neither result nor error, after a failure the step fails
C24_Dispatched(k, j) ==
    /\ Len(toolExecs) >= k
    /\ toolExecs[k].name = JsonDocs[j].Tool
    /\ toolExecs[k].args = JsonDocs[j].Args
    /\ (k = Len(modelCalls) /\ pc = "stepped")
       => /\ Len(toolExecs) = k
          /\ Len(stepObj.ToolCalls) = 1
          /\ stepObj.ToolCalls[1].Name = JsonDocs[j].Tool
          /\ stepObj.ToolCalls[1].Arguments = JsonDocs[j].Args
          /\ result = NilValue
          /\ IF toolExecs[k].ok
             THEN /\ err = NoErr
                  /\ stepObj.ToolCalls[1].Error = << >>
                  /\ stepObj.Messages[Len(stepObj.Messages)] =
                        Message(RoleTool, SprintV(stepObj.ToolCalls[1].Output),
                                JsonDocs[j].Tool)
                  /\ stepObj.Messages[Len(stepObj.Messages) - 1] =
                        Message(RoleAssistant, modelCalls[k].response, << >>)
             ELSE /\ err # NoErr
                  /\ err.msg[1] = "failed to execute tool call: "
                  /\ stepObj.ToolCalls[1].Error # << >>

\* C24: when a CodeAgent step is answered with a fenced JSON call of a
\* registered tool and no code block yields a call, the step dispatches that
\* tool with the arguments of the JSON document, records the call on the
\* step, appends the tool message after a success, and Run goes on to the
\* next iteration; after a failure of the tool the step fails.
C24_JsonFallbackDispatches ==
    /\ [](\A k \in DOMAIN modelCalls : \A j \in JsonSymbols :
            C24_FencedJsonCall(k, j)
            => IF k = Len(modelCalls) /\ pc = "dispatch"
               THEN /\ toolName = JsonDocs[j].Tool
                    /\ args = JsonDocs[j].Args
                    /\ Len(toolExecs) = k - 1
               ELSE C24_Dispatched(k, j))
    /\ [][\A j \in JsonSymbols :
            (/\ pc = "stepped"
             /\ modelCalls # << >>
             /\ C24_FencedJsonCall(Len(modelCalls), j)
             /\ Len(toolExecs) = Len(modelCalls)
             /\ toolExecs[Len(toolExecs)].ok)
            => /\ pc' = "loop"
               /\ step' = step + 1
               /\ finalAnswer' = NilValue
               /\ lastError' = NoErr]_vars

\* a CodeAgent's Run was answered with the fenced JSON call of add, executed
\* add and went on to a second model call
C24_Witness ==
    /\ agent.kind = "CodeAgent"
    /\ Len(modelCalls) = 2
    /\ modelCalls[1].fn = "Generate"
    /\ IsFencedCall(modelCalls[1].response, JAdd)
    /\ toolExecs # << >>
    /\ toolExecs[1].ok
    /\ toolExecs[1].name = AddName
    /\ toolExecs[1].args = JsonDocs[JAdd].Args

(***************************************************************************)
(* CodeAgent.extractToolCallFromCode as a function of the code text: the   *)
(* argument lists it is applied to, and the call that applies it.          *)
(***************************************************************************)
MaxArgItems == 2

\* name = value items as they are written in a call, with the value each
\* literal denotes; kept is FALSE for the shapes that are no string and no
\* number literal
ArgItems ==
    {[text |-> <<"a", "=", "1">>, name |-> <<"a">>, kept |-> TRUE, value |-> IntV(1)],
     [text |-> <<"b", "=", "2">>, name |-> <<"b">>, kept |-> TRUE, value |-> IntV(2)],
     [text |-> <<"m", "=", "1", "2">>, name |-> <<"m">>, kept |-> TRUE,
      value |-> IntV(12)],
     [text |-> <<"n", " ", "=", " ", "3">>, name |-> <<"n">>, kept |-> TRUE,
      value |-> IntV(3)],
     [text |-> <<"c", "=", "1", ".", "5">>, name |-> <<"c">>, kept |-> TRUE,
      value |-> FloatV(15, 1)],
     [text |-> <<"s", "=", "\"", "x", "\"">>, name |-> <<"s">>, kept |-> TRUE,
      value |-> StrV(<<"x">>)],
     [text |-> <<"q", "=", "'", "y", "'">>, name |-> <<"q">>, kept |-> TRUE,
      value |-> StrV(<<"y">>)],
     [text |-> <<"e", "=", "\"", "\"">>, name |-> <<"e">>, kept |-> TRUE,
      value |-> StrV(<< >>)],
     [text |-> <<"d", "=", "f", "o", "o">>, name |-> <<"d">>, kept |-> FALSE,
      value |-> NilValue],
     [text |-> <<"f", "=", "t", "r", "u", "e">>, name |-> <<"f">>, kept |-> FALSE,
      value |-> NilValue]}

ArgLists == UNION {[1..n -> ArgItems] : n \in 0..MaxArgItems}

\* the items separated by ", "
RECURSIVE JoinItems(_)
JoinItems(items) ==
    IF items = << >> THEN << >>
    ELSE IF Len(items) = 1 THEN items[1].text
    ELSE items[1].text \o <<",", " ">> \o JoinItems(Tail(items))

\* a line of code that calls add with the items as its argument list
CallText(items) ==
    <<"r", " ", "=", " ">> \o AddName \o <<"(">> \o JoinItems(items) \o <<")">>

\* the mapping the items denote: the names of the kept items, each with the
\* value of its literal
DenotedArgs(items) ==
    [key \in {items[i].name : i \in {i \in DOMAIN items : items[i].kept}} |->
        (CHOOSE it \in ArgItems : it.name = key).value]

\* a CodeAgent that has test_tool and add is about to read a line of code
ParseInit ==
    /\ agent = NewCodeAgent(<<TestTool, AddTool>>, "mock", << >>).agent
    /\ newErr = NoErr
    /\ newArgs = NoArgs
    /\ memory = NewMemory
    /\ stepObj = NoStepObj
    /\ pc = "parse"
    /\ task = << >>
    /\ step = 0
    /\ response \in {CallText(items) : items \in ArgLists}
    /\ toolName = << >>
    /\ args = EmptyMap
    /\ result = NilValue
    /\ err = NoErr
    /\ finalAnswer = NilValue
    /\ lastError = NoErr
    /\ modelCalls = << >>
    /\ toolExecs = << >>
    /\ prevTask = << >>
    /\ trace = << >>
    /\ memOp = NoMemOp
    /\ cancelled = FALSE
    /\ runs = NoRuns
    /\ fnTool = NoFnTool

\* toolName, args, err := a.extractToolCallFromCode(codeBlock)
CallExtractToolCallFromCode ==
    /\ pc = "parse"
    /\ toolName' = extractToolCallFromCode(agent, response).tool
    /\ args' = extractToolCallFromCode(agent, response).args
    /\ err' = extractToolCallFromCode(agent, response).err
    /\ pc' = "parsed"
    /\ UNCHANGED <<agent, newErr, newArgs, memory, stepObj, task, step, response,
                   result, finalAnswer, lastError, modelCalls, toolExecs, prevTask,
                   trace, memOp, cancelled, runs, fnTool>>

ParseNext == CallExtractToolCallFromCode

ParseSpec == ParseInit /\ [][ParseNext]_vars

\* C25: the argument list of a matched call parses, without failure, to the
\* mapping that holds exactly the names whose value is a double-quoted
\* string, a single-quoted string or an integer or decimal literal, each
\* bound to that string or number; items of any other shape are left out.
C25_ArgumentListParsing ==
    pc = "parsed"
    => \A items \in ArgLists :
          response = CallText(items)
          => /\ toolName = AddName
             /\ err = NoErr
             /\ args = DenotedArgs(items)

\* C26: Run on a BaseAgent without a stepper ends in its first iteration
\* with the failure "Step method must be implemented by derived agents" and
\* no final answer; it calls no model and executes no tool, and the
\* transcript it leaves holds a system_prompt step, a task step and one
\* action step.
C26_BaseAgentAloneIsNotRunnable ==
    (agent # NoAgent /\ agent.kind = "BaseAgent" /\ agent.stepper = "nil")
    => /\ modelCalls = << >>
       /\ toolExecs = << >>
       /\ finalAnswer = NilValue
       /\ step = 0
       /\ pc = "returned"
          => /\ lastError = ErrNew(NotImplementedText)
             /\ [i \in DOMAIN memory.Steps |-> memory.Steps[i].Type] =
                   <<"system_prompt", "task", "action">>

\* a BaseAgent's Run has returned
C26_Witness ==
    /\ agent # NoAgent
    /\ agent.kind = "BaseAgent"
    /\ agent.stepper = "nil"
    /\ pc = "returned"
    /\ task # << >>
    /\ lastError # NoErr

\* the loop has closed the step and gone on to the next iteration
C27_Continues ==
    /\ pc' = "loop"
    /\ step' = step + 1
    /\ stepObj'.Ended
    /\ memory'.curStep = "nil"
    /\ finalAnswer' = NilValue
    /\ lastError' = NoErr

\* C27: whenever the step succeeds with an absent or empty result, the empty
\* string included, the loop closes the step and goes on to the next
\* iteration; the run does not end with that result as its final answer.
C27_EmptyResultContinues ==
    [][(pc = "stepped" /\ err = NoErr /\ result \in {NilValue, StrV(<< >>)})
       => C27_Continues]_vars

\* C27, as the code has it: whenever the step succeeds with an absent (nil)
\* result, the loop closes the step and goes on to the next iteration; a
\* result that is present, the empty string included, ends the run with that
\* result as the final answer.
C27_AbsentResultContinues ==
    [][(pc = "stepped" /\ err = NoErr)
       => IF result = NilValue
          THEN C27_Continues
          ELSE /\ pc' = "exit"
               /\ finalAnswer' = result
               /\ lastError' = NoErr
               /\ stepObj'.Ended
               /\ memory'.curStep = "nil"
               /\ step' = step]_vars

\* a Run went on after a first step without a result and returned the empty
\* response of its second step as the final answer
C27_Witness ==
    /\ pc = "returned"
    /\ step = 1
    /\ Len(modelCalls) = 2
    /\ Len(toolExecs) = 1
    /\ toolExecs[1].ok
    /\ modelCalls[2].err = NoErr
    /\ modelCalls[2].response = RespEmpty
    /\ finalAnswer = StrV(<< >>)
    /\ lastError = NoErr

\* the generation call of each kind of agent
GenerationOf(kind) ==
    IF kind = "ToolCallingAgent" THEN "GenerateWithTools" ELSE "Generate"

\* the step of iteration `step` has made that iteration's model call, the
\* only one of the iteration, and executed at most one tool
C28_OneCallPerIteration ==
    /\ Len(modelCalls) = step + 1
    /\ \A k \in DOMAIN modelCalls : modelCalls[k].fn = GenerationOf(agent.kind)
    /\ Len(toolExecs) \in {step, step + 1}

\* C28: every iteration of a ToolCallingAgent's or CodeAgent's Run makes
\* exactly one model call (GenerateWithTools, respectively Generate) and
\* executes at most one tool; the tool is executed after the model call of
\* its iteration has returned and before the model call of the next
\* iteration, so that steps and tool executions never overlap.
C28_SequentialStepping ==
    /\ []((agent # NoAgent /\ agent.kind \in {"ToolCallingAgent", "CodeAgent"}
           /\ pc = "stepped")
          => C28_OneCallPerIteration)
    /\ [][/\ (toolExecs' # toolExecs /\ toolExecs' # << >>)
             => /\ pc = "dispatch"
                /\ Len(modelCalls) = step + 1
                /\ modelCalls' = modelCalls
                /\ Len(toolExecs) = step
                /\ Len(toolExecs') = step + 1
          /\ (modelCalls' # modelCalls /\ modelCalls' # << >>)
             => /\ pc = "step"
                /\ Len(modelCalls) = step
                /\ Len(modelCalls') = step + 1
                /\ toolExecs' = toolExecs
                /\ Len(toolExecs) = step]_vars

\* the agent has a step strategy that Run reaches
HasStrategy(a) ==
    a.kind = "ToolCallingAgent" \/ (a.kind = "CodeAgent" /\ a.stepper = "CodeAgent")

\* C29: once ctx is cancelled between two iterations of a Run in progress,
\* the run is aborted: no further model call and no further tool execution
\* is started, and Run returns a failure.
C29_CancellationAbortsRun ==
    /\ [][cancelled
          => /\ Len(modelCalls') <= Len(modelCalls)
             /\ Len(toolExecs') <= Len(toolExecs)]_vars
    /\ []((cancelled /\ pc = "returned")
          => lastError # NoErr /\ finalAnswer = NilValue)

\* C29, as the code has it: Run never looks at ctx, it only hands it to the
\* model calls and tool executions.  Once ctx is cancelled between two
\* iterations the loop still opens the next step and makes its model call,
\* with the cancelled ctx.  When that call fails, as with a model that
\* honours ctx, the step fails with "failed to generate response: ..." and
\* Run returns that failure, with no final answer, no tool execution and no
\* further model call; a model that ignores ctx lets the run go on.
C29_CancellationIsLeftToCallees ==
    /\ [][(cancelled /\ pc = "loop" /\ step < agent.maxSteps)
          => /\ pc' = "step"
             /\ step' = step
             /\ cancelled'
             /\ lastError' = NoErr
             /\ Len(memory'.Steps) = Len(memory.Steps) + 1]_vars
    /\ [][(cancelled /\ pc = "step" /\ HasStrategy(agent))
          => /\ Len(modelCalls') = Len(modelCalls) + 1
             /\ modelCalls'[Len(modelCalls')].ctxDone
             /\ modelCalls'[Len(modelCalls')].messages = stepObj.Messages]_vars
    /\ [](\A k \in DOMAIN modelCalls :
            (modelCalls[k].ctxDone /\ modelCalls[k].err # NoErr)
            => /\ k = Len(modelCalls)
               /\ Len(toolExecs) = k - 1
               /\ finalAnswer = NilValue
               /\ pc \in {"stepped", "exit", "returned"}
               /\ err = ErrWrap("failed to generate response: ", modelCalls[k].err)
               /\ pc \in {"exit", "returned"} => lastError = err)

\* a Run whose ctx was cancelled after its first iteration went on to a
\* second tool execution and returned the answer of its third model call
C29_Witness ==
    /\ cancelled
    /\ pc = "returned"
    /\ Len(modelCalls) = 3
    /\ ~modelCalls[1].ctxDone
    /\ modelCalls[2].ctxDone
    /\ modelCalls[3].ctxDone
    /\ Len(toolExecs) = 2
    /\ finalAnswer = StrV(RespFinal)
    /\ lastError = NoErr

(***************************************************************************)
(* Two goroutines call Run on one agent.  Run has no lock and pkg/memory   *)
(* has none: the statements of the two calls interleave, and every one of  *)
(* them reads the field a.memory anew.  Each goroutine's Run is followed   *)
(* through its prologue and one iteration whose step returns an answer.    *)
(***************************************************************************)
Goroutines == {1, 2}
Other(r) == 3 - r
ConcTask(r) == IF r = 1 THEN <<"test task">> ELSE <<"other task">>

\* the variables no statement of a concurrent Run writes
concVars ==
    <<agent, newErr, newArgs, pc, task, step, response, toolName, args, result, err,
      finalAnswer, lastError, modelCalls, toolExecs, prevTask, trace, memOp, cancelled,
      fnTool>>

\* Run's locals: position, task, the messages built for the prompt, the
\* object actionStep points to and whether a.memory's curStep points to the
\* same object, the transcript a.memory held when Run returned; overlapped
\* records that the other call was in progress during this one
NewRun(r) ==
    [pc |-> "idle", task |-> ConcTask(r), prompt |-> << >>, actionStep |-> NoStepObj,
     isCur |-> FALSE, left |-> << >>, overlapped |-> FALSE]

InProgress(r) == runs[r].pc \notin {"idle", "returned"}

ConcInit ==
    /\ agent \in {NewToolCallingAgent(tools, "mock", << >>).agent :
                      tools \in ToolLists \ {<< >>}}
    /\ newErr = NoErr
    /\ newArgs = NoArgs
    /\ memory = NewMemory
    /\ stepObj = NoStepObj
    /\ pc = "conc"
    /\ task = << >>
    /\ step = 0
    /\ response = << >>
    /\ toolName = << >>
    /\ args = EmptyMap
    /\ result = NilValue
    /\ err = NoErr
    /\ finalAnswer = NilValue
    /\ lastError = NoErr
    /\ modelCalls = << >>
    /\ toolExecs = << >>
    /\ prevTask = << >>
    /\ trace = << >>
    /\ memOp = NoMemOp
    /\ cancelled = FALSE
    /\ runs = [r \in Goroutines |-> NewRun(r)]
    /\ fnTool = NoFnTool

\* A variant of Run's first statement that keeps the Memory the agent has.
ConcNewMemoryKeeping ==
    /\ pc = "conc"
    /\ \E r \in Goroutines :
        /\ runs[r].pc = "idle"
        /\ runs' = [q \in Goroutines |->
                      IF q = r
                      THEN [runs[q] EXCEPT !.pc = "sys", !.overlapped = InProgress(Other(r))]
                      ELSE [runs[q] EXCEPT !.overlapped = @ \/ InProgress(q)]]
    /\ UNCHANGED <<memory, stepObj>>
    /\ UNCHANGED concVars

\* a.memory = memory.NewMemory()
ConcNewMemory ==
    /\ pc = "conc"
    /\ \E r \in Goroutines :
        /\ runs[r].pc = "idle"
        /\ runs' = [q \in Goroutines |->
                      IF q = r
                      THEN [runs[q] EXCEPT !.pc = "sys", !.overlapped = InProgress(Other(r))]
                      ELSE [runs[q] EXCEPT !.overlapped = @ \/ InProgress(q),
                                           !.isCur = FALSE]]
    /\ memory' = NewMemory
    /\ stepObj' = NoStepObj
    /\ UNCHANGED concVars

\* a.memory.AddSystemPromptStep(a.systemPrompt, systemMessages)
ConcAddSystemPromptStep ==
    /\ pc = "conc"
    /\ \E r \in Goroutines :
        /\ runs[r].pc = "sys"
        /\ runs' = [q \in Goroutines |->
                      IF q = r THEN [runs[q] EXCEPT !.pc = "sysDone"]
                      ELSE [runs[q] EXCEPT !.isCur = FALSE]]
    /\ memory' = AddSystemPromptStep(memory,
                     <<Message(RoleSystem, agent.systemPrompt, << >>)>>).mem
    /\ stepObj' = AddSystemPromptStep(memory,
                      <<Message(RoleSystem, agent.systemPrompt, << >>)>>).obj
    /\ UNCHANGED concVars

\* a.memory.CompleteCurrentStep(), at its three places in Run; the third is
\* followed by Run's return
ConcCompleteCurrentStep ==
    /\ pc = "conc"
    /\ \E r \in Goroutines :
        /\ runs[r].pc \in {"sysDone", "taskDone", "stepped"}
        /\ runs' = [q \in Goroutines |->
                      [runs[q] EXCEPT
                         !.pc = IF q # r THEN @
                                ELSE IF @ = "sysDone" THEN "task"
                                ELSE IF @ = "taskDone" THEN "build"
                                ELSE "returned",
                         !.actionStep = IF runs[q].isCur
                                        THEN CompleteCurrentStep(memory, stepObj).obj
                                        ELSE @,
                         !.isCur = FALSE,
                         !.left = IF q = r /\ runs[r].pc = "stepped"
                                  THEN memory.Steps ELSE @]]
    /\ memory' = CompleteCurrentStep(memory, stepObj).mem
    /\ stepObj' = CompleteCurrentStep(memory, stepObj).obj
    /\ UNCHANGED concVars

\* a.memory.AddTaskStep(task, taskMessages)
ConcAddTaskStep ==
    /\ pc = "conc"
    /\ \E r \in Goroutines :
        /\ runs[r].pc = "task"
        /\ runs' = [q \in Goroutines |->
                      IF q = r THEN [runs[q] EXCEPT !.pc = "taskDone"]
                      ELSE [runs[q] EXCEPT !.isCur = FALSE]]
        /\ memory' = AddTaskStep(memory,
                         <<Message(RoleUser, runs[r].task, << >>)>>).mem
        /\ stepObj' = AddTaskStep(memory,
                          <<Message(RoleUser, runs[r].task, << >>)>>).obj
    /\ UNCHANGED concVars

\* messages := a.buildMessages()
ConcBuildMessages ==
    /\ pc = "conc"
    /\ \E r \in Goroutines :
        /\ runs[r].pc = "build"
        /\ runs' = [runs EXCEPT ![r].pc = "open",
                                ![r].prompt = buildMessages(agent, memory)]
    /\ UNCHANGED <<memory, stepObj>>
    /\ UNCHANGED concVars

\* actionStep := a.memory.AddActionStep(task, messages)
ConcAddActionStep ==
    /\ pc = "conc"
    /\ \E r \in Goroutines :
        /\ runs[r].pc = "open"
        /\ runs' = [q \in Goroutines |->
                      IF q = r
                      THEN [runs[q] EXCEPT
                              !.pc = "step",
                              !.actionStep = AddActionStep(memory, runs[r].prompt).obj,
                              !.isCur = TRUE]
                      ELSE [runs[q] EXCEPT !.isCur = FALSE]]
        /\ memory' = AddActionStep(memory, runs[r].prompt).mem
        /\ stepObj' = AddActionStep(memory, runs[r].prompt).obj
    /\ UNCHANGED concVars

\* the step strategy with a model that answers in plain text: the assistant
\* message is appended to the object actionStep points to
ConcStep ==
    /\ pc = "conc"
    /\ \E r \in Goroutines :
        /\ runs[r].pc = "step"
        /\ runs' = [runs EXCEPT
                      ![r].pc = "stepped",
                      ![r].actionStep.Messages =
                          Append(@, Message(RoleAssistant, RespFinal, << >>))]
        /\ stepObj' = IF runs[r].isCur
                      THEN [stepObj EXCEPT !.Messages =
                               Append(@, Message(RoleAssistant, RespFinal, << >>))]
                      ELSE stepObj
    /\ UNCHANGED memory
    /\ UNCHANGED concVars

ConcNext ==
    \/ ConcNewMemory
    \/ ConcAddSystemPromptStep
    \/ ConcAddTaskStep
    \/ ConcCompleteCurrentStep
    \/ ConcBuildMessages
    \/ ConcAddActionStep
    \/ ConcStep

ConcSpec == ConcInit /\ [][ConcNext]_vars

TaskMessage(r) == Message(RoleUser, ConcTask(r), << >>)

\* the message is one of the messages of the list
HoldsMessage(msg, ms) == \E i \in DOMAIN ms : ms[i] = msg

\* the prompt run r built holds the task of the other run, or not its own
PromptCorrupted(r) ==
    /\ runs[r].pc \in {"open", "step", "stepped", "returned"}
    /\ \/ HoldsMessage(TaskMessage(Other(r)), runs[r].prompt)
       \/ ~HoldsMessage(TaskMessage(r), runs[r].prompt)

\* the transcript a.memory held when run r returned holds the task of the
\* other run, or lacks a system_prompt step or the task step of run r
TranscriptCorrupted(r) ==
    /\ runs[r].pc = "returned"
    /\ \/ \E i \in DOMAIN runs[r].left :
             HoldsMessage(TaskMessage(Other(r)), runs[r].left[i].Messages)
       \/ ~\E i \in DOMAIN runs[r].left : runs[r].left[i].Type = "system_prompt"
       \/ ~\E i \in DOMAIN runs[r].left :
             /\ runs[r].left[i].Type = "task"
             /\ runs[r].left[i].Messages = <<TaskMessage(r)>>

\* C30: two Runs on one agent corrupt each other exactly by interleaving: a
\* Run's prompt or the transcript it leaves holds the other Run's task, or
\* lacks its own system-prompt or task step, only if the other Run was in
\* progress during it, and such an interleaving exists (C30_Witness); Runs
\* that do not overlap leave each other's prompt and transcript alone.
C30_CorruptionOnlyByInterleaving ==
    \A r \in Goroutines :
        (runs # NoRuns /\ (PromptCorrupted(r) \/ TranscriptCorrupted(r)))
        => runs[r].overlapped

\* both Runs have returned; the prompt of the first held the task of the
\* second and not its own, and the transcript it left lacks its own task step
C30_Witness ==
    /\ runs # NoRuns
    /\ runs[1].pc = "returned"
    /\ runs[2].pc = "returned"
    /\ HoldsMessage(TaskMessage(2), runs[1].prompt)
    /\ ~HoldsMessage(TaskMessage(1), runs[1].prompt)
    /\ TranscriptCorrupted(1)

\* C36: what Run returns is a final answer and no failure, or a failure and
\* no final answer; never both and never neither.
C36_AnswerOrFailure ==
    pc = "returned"
    => \/ finalAnswer # NilValue /\ lastError = NoErr
       \/ finalAnswer = NilValue /\ lastError # NoErr

\* a Run has returned the answer of its second step
C36_Witness ==
    /\ pc = "returned"
    /\ Len(modelCalls) = 2
    /\ Len(toolExecs) = 1
    /\ finalAnswer = StrV(RespFinal)
    /\ lastError = NoErr

RECURSIVE Pow2(_)
Pow2(n) == IF n = 0 THEN 1 ELSE 2 * Pow2(n - 1)

StepsKept ==
    \A i \in DOMAIN memory.Steps :
        /\ i <= Len(memory'.Steps)
        /\ memory'.Steps[i].Type = memory.Steps[i].Type
        /\ memory'.Steps[i].Messages = memory.Steps[i].Messages
        /\ memory'.Steps[i].ToolCalls = memory.Steps[i].ToolCalls

ArgKey(i) == <<"a", "r", "g", Digits[i + 1]>>

\* the kinds a schema can be derived for, and their type tags
SupportedKinds == {"string", "bool", "int", "float64", "slice", "map", "struct"}
TypeTag(kind) ==
    CASE kind = "string" -> "string"
      [] kind = "bool" -> "boolean"
      [] kind = "int" -> "integer"
      [] kind = "float64" -> "number"
      [] kind = "slice" -> "array"
      [] kind \in {"map", "struct"} -> "object"

\* C31: a function tool built from a function with N parameters (N >= 0)
\* of supported types is built without failure, and its schema has type
\* "object", exactly the N properties arg0..arg(N-1), the property arg(i)
\* describing the parameter declared at position i, and the N required
\* entries arg0..arg(N-1) in that order.
C31_SchemaDerivation ==
    (/\ pc \in {"built", "executed"}
     /\ newArgs.name # << >>
     /\ newArgs.description # << >>
     /\ newArgs.fn.kind = "func"
     /\ \A i \in DOMAIN newArgs.fn.In : newArgs.fn.In[i] \in SupportedKinds)
    => LET n == Len(newArgs.fn.In)
       IN  /\ newErr = NoErr
           /\ fnTool # NoFnTool
           /\ fnTool.schema.Type = "object"
           /\ DOMAIN fnTool.schema.Properties = {ArgKey(i) : i \in 0..(n - 1)}
           /\ Cardinality(DOMAIN fnTool.schema.Properties) = n
           /\ \A i \in 0..(n - 1) :
                 fnTool.schema.Properties[ArgKey(i)].Type = TypeTag(newArgs.fn.In[i + 1])
           /\ fnTool.schema.Required = [i \in 1..n |-> ArgKey(i - 1)]

\* the tool of add(a, b int) int was built: two integer properties, arg0
\* and arg1, both required
C31_Witness ==
    /\ pc = "built"
    /\ fnTool # NoFnTool
    /\ fnTool.fn.In = <<"int", "int">>
    /\ fnTool.fn.Out = <<"int">>
    /\ fnTool.schema.Required = <<ArgKey(0), ArgKey(1)>>
    /\ fnTool.schema.Properties[ArgKey(1)].Type = "integer"

\* the value has the type of a parameter of this kind
CorrectlyTyped(v, kind) ==
    \/ kind = "int" /\ v.t = "int"
    \/ kind = "string" /\ v.t = "str"

\* the value can be neither coerced to a parameter of this kind nor
\* converted to it through its serialised form
Unconvertible(v, kind) ==
    \/ kind = "int" /\ v.t \in {"str", "map"}
    \/ kind = "string" /\ v.t = "map"
    \/ kind = "struct" /\ v.t \in {"int", "str"}

\* positions, counted from zero, of the parameters of the tool whose key is
\* absent from args, and of those whose value in args is unconvertible
AbsentParams == {i \in 0..(Len(fnTool.fn.In) - 1) : ArgKey(i) \notin DOMAIN args}
UnconvertibleParams ==
    {i \in 0..(Len(fnTool.fn.In) - 1) :
        ArgKey(i) \in DOMAIN args /\ Unconvertible(args[ArgKey(i)], fnTool.fn.In[i + 1])}

\* the wrapped function was not invoked by the Execute that returned / it
\* was invoked, once
NotInvoked == fnTool.calls = << >>
InvokedOnce == Len(fnTool.calls) = 1

IsMissingArgument(e, key) ==
    /\ e # NoErr
    /\ e.msg = <<"failed to prepare arguments: ", "missing required argument: ">> \o key

IsConversionFailure(e) ==
    /\ e # NoErr
    /\ Len(e.msg) >= 2
    /\ e.msg[1] = "failed to prepare arguments: "
    /\ e.msg[2] = "failed to convert argument "

IsConversionFailureOf(e, key) ==
    /\ IsConversionFailure(e)
    /\ SubSeq(e.msg, 3, 2 + Len(key)) = key

\* Execute with every key present and correctly typed: the function is
\* invoked once with these values in declaration order, and what it returns
\* without a failure of its own (its first value; nil when it returns
\* nothing) is Execute's result, with no failure.
BindsCompleteArguments ==
    (\A i \in 0..(Len(fnTool.fn.In) - 1) :
        ArgKey(i) \in DOMAIN args /\ CorrectlyTyped(args[ArgKey(i)], fnTool.fn.In[i + 1]))
    => /\ InvokedOnce
       /\ fnTool.calls[1].callArgs = [i \in 1..Len(fnTool.fn.In) |-> args[ArgKey(i - 1)]]
       /\ FnFailure \notin {fnTool.calls[1].results[j] : j \in DOMAIN fnTool.calls[1].results}
          => /\ err = NoErr
             /\ result = IF fnTool.calls[1].results = << >> THEN NilValue
                         ELSE fnTool.calls[1].results[1]

\* C32 as stated: complete, correctly typed arguments are bound and the
\* function's result is returned; an absent key gives a missing-argument
\* failure naming the first absent key, whatever else is supplied; an
\* unconvertible value gives a conversion failure, whatever else is
\* supplied; the function is not invoked in either case.
C32_ExecuteBindingAsStated ==
    pc = "executed"
    => /\ BindsCompleteArguments
       /\ AbsentParams # {}
          => /\ IsMissingArgument(err,
                    ArgKey(CHOOSE i \in AbsentParams : \A j \in AbsentParams : i <= j))
             /\ NotInvoked
       /\ UnconvertibleParams # {}
          => /\ IsConversionFailure(err)
             /\ NotInvoked

\* C32: complete, correctly typed arguments are bound and the function's
\* result is returned.  Otherwise the parameters are taken in declaration
\* order and the first one whose key is absent or whose value is
\* unconvertible decides: an absent key gives a missing-argument failure
\* naming it, an unconvertible value a conversion failure naming it; the
\* function is not invoked.
C32_ExecuteBindingInOrder ==
    pc = "executed"
    => /\ BindsCompleteArguments
       /\ \A i \in AbsentParams \cup UnconvertibleParams :
             (\A j \in AbsentParams \cup UnconvertibleParams : i <= j)
             => /\ NotInvoked
                /\ result = NilValue
                /\ i \in AbsentParams => IsMissingArgument(err, ArgKey(i))
                /\ i \in UnconvertibleParams => IsConversionFailureOf(err, ArgKey(i))

\* add(a, b int) called with a text for arg0 and without arg1: Execute
\* failed on the conversion of arg0 and add was not invoked
C32_Witness ==
    /\ pc = "executed"
    /\ fnTool.fn.In = <<"int", "int">>
    /\ DOMAIN args = {ArgKey(0)}
    /\ args[ArgKey(0)] = StrV(<<"World">>)
    /\ IsConversionFailureOf(err, ArgKey(0))
    /\ NotInvoked

\* C33: when the wrapped function's results include a failure value (also
\* when the failure is its only result) and the function returns a non-nil
\* failure, Execute returns that failure as its failure, with no result; it
\* never hands the function's failure back as a successful result.
C33_FailureShortCircuit ==
    (/\ pc = "executed"
     /\ InvokedOnce
     /\ \E j \in DOMAIN fnTool.fn.Out :
           fnTool.fn.Out[j] = "error" /\ fnTool.calls[1].results[j] # NilValue)
    => /\ \E j \in DOMAIN fnTool.fn.Out :
             fnTool.fn.Out[j] = "error" /\ err = fnTool.calls[1].results[j].e
       /\ result = NilValue
       /\ result.t # "error"

====
